---- MODULE Spec2Model ----
(***************************************************************************)
(* Verification model of pkms: the sqlite3 upserter (primary table, the    *)
(* trigger-maintained full-text table, transaction scopes), the longest-   *)
(* prefix FileLocation matcher and the FileLocation path-segment algebra.  *)
(*                                                                         *)
(* Each component has its own specification (SpecStore, SpecMatcher,       *)
(* SpecLocation, SpecFs); the variables of the other components stay at    *)
(* their idle values.                                                      *)
(***************************************************************************)
EXTENDS Integers, Sequences, FiniteSets, Bags, TLC

(* Python's None / SQL NULL for string-valued fields. *)
Null == "<None>"

(***************************************************************************)
(* Bounds                                                                  *)
(***************************************************************************)
MaxClock == 1            \* now_iso() takes the values 0..MaxClock
MaxCloses == 3           \* close() is called at most this many times

FileIds == {"file-1", "file-2"}   \* file_id values offered to upsert()

(***************************************************************************)
(* Sqlite3Upserter state                                                   *)
(***************************************************************************)
VARIABLES
    connection,      \* self._connection: "open" or Null
    in_transaction,  \* self._in_transaction
    sqlite_txn,      \* the sqlite connection has an open transaction
    files,           \* table files as the upserter's connection sees it
    files_fts,       \* index files_fts as the upserter's connection sees it
    db_files,        \* table files as committed (what another connection reads)
    db_files_fts,    \* index files_fts as committed
    scope,           \* caller's position: "none" or "body" of `with transaction()`
    now,             \* the clock read by now_iso()
    last,            \* record of the last call and its outcome
    hist,            \* history: per file_id, first timestamp and last document upserted (connection view)
    db_hist,         \* history of the committed upserts
    scope_start,     \* history: committed tables when the open scope was entered
    scope_ids,       \* history: file_ids upserted successfully in the last scope entered
    closes           \* history: number of close() calls so far

storeVars == <<connection, in_transaction, sqlite_txn, files, files_fts,
               db_files, db_files_fts, scope, now, last, hist, db_hist,
               scope_start, scope_ids, closes>>

(***************************************************************************)
(* SimpleFileLocationMatcher state                                         *)
(***************************************************************************)
VARIABLES
    file_locations,  \* self.file_locations: the candidate list
    m_target,        \* <<>> or <<the argument of the find_match call>>
    m_called,        \* find_match has returned
    m_index,         \* find_match_index result: 0 for None, i + 1 for index i
    m_match          \* find_match result: <<>> for None, else <<candidate>>

matcherVars == <<file_locations, m_target, m_called, m_index, m_match>>

(***************************************************************************)
(* FileLocation construction                                               *)
(***************************************************************************)
VARIABLES
    loc_args,        \* arguments of the construction, and the constructor used
    loc,             \* <<>> before the call and when it raised, else <<the FileLocation built>>
    loc_error        \* "pending" before the call, then "ok" or the exception raised

locVars == <<loc_args, loc, loc_error>>

(***************************************************************************)
(* FileLocation.from_filesystem_path / to_filesystem_path                  *)
(***************************************************************************)
VARIABLES
    fs_args,         \* path, path_convention and normalize of the call, and the host's os.path
    fs_loc,          \* <<>> or <<the FileLocation from_filesystem_path returned>>
    fs_error,        \* "pending" before the call, then "ok" or the exception raised
    fs_out           \* <<>> or <<convention, what to_filesystem_path returned>>

fsVars == <<fs_args, fs_loc, fs_error, fs_out>>

(***************************************************************************)
(* wrap_text_search_query (the query compiler of Sqlite3Searcher)          *)
(***************************************************************************)
VARIABLES
    query,           \* the free text given to wrap_text_search_query
    query_terms,     \* history: <<>> or <<the terms the text was written from>>
    tokens,          \* <<>> before the call, then <<the Token list built>>
    compiled         \* <<>> before the call, then <<the string returned>>

queryVars == <<query, query_terms, tokens, compiled>>

(***************************************************************************)
(* Sqlite3Searcher.search, called from several threads                     *)
(***************************************************************************)
VARIABLES
    searcher_db,     \* table files, with its index, in the database at config.db_path
    max_limit,       \* self.config.max_limit
    search,          \* per thread: the position, arguments and locals of its search() call
    cursors          \* per connection: <<>> or <<the rows its cursor still holds>>

searchVars == <<searcher_db, max_limit, search, cursors>>

(***************************************************************************)
(* UriResolver.resolve                                                     *)
(***************************************************************************)
VARIABLES
    resolver_db,     \* table files in the database at config.db_path
    resolve_uri,     \* the uri given to resolve()
    resolved         \* <<>> before the call, then <<"ValueError">>, <<"LookupError">>
                     \* or <<"ok", the ResolvedTarget returned>>

resolverVars == <<resolver_db, resolve_uri, resolved>>

(***************************************************************************)
(* SimpleScreener.screen                                                   *)
(***************************************************************************)
VARIABLES
    candidates,      \* the candidates given to screen(), each with what the
                     \* filesystem holds at its path
    screened         \* <<>> before the call, then <<"raised", the exception>>
                     \* or <<"returned", the list of ScreeningResult>>



screenerVars == <<candidates, screened>>

(***************************************************************************)
(* Collection.ingest, ingest_file and ingest_files                         *)
(***************************************************************************)
VARIABLES
    ingest_call,     \* the method called, its dry_run and the files it goes through,
                     \* each with what the collection's components do with it
    ingest_pos,      \* index of the file the loop is at
    ingest_count,    \* the local count
    ingest_log,      \* history: the component calls made so far, <<component, file index, outcome>>
    ingest_result    \* <<>> while the call runs, then <<"returned", count>> or
                     \* <<"raised", the exception>>

ingestVars == <<ingest_call, ingest_pos, ingest_count, ingest_log, ingest_result>>

\* FileLocation.uri and FileLocation.from_uri
VARIABLES
    uri_loc,         \* the FileLocation whose uri is taken
    uri_text,        \* <<>> before .uri is read, then <<"ok", uri>> or <<exception>>
    uri_back         \* <<>> before from_uri, then <<the location parsed back>>

uriVars == <<uri_loc, uri_text, uri_back>>

\* Walker.walk
VARIABLES
    walk_args,       \* base and the walker's max_depth
    stack,           \* the work stack of frames
    result_storage,  \* the dict the root's value is stored in
    walk_result      \* <<>> while the loop runs, then <<"returned", value>> or
                     \* <<"raised", exception>>

walkerVars == <<walk_args, stack, result_storage, walk_result>>

\* IngestCapability
VARIABLES
    cap_call,        \* the method called, its locations and dry_run, and what the
                     \* collections' ingest() and ingest_file() return
    cap_pos,         \* index of the location the loop is at
    cap_count,       \* the local count
    cap_log,         \* history: the calls made on collections so far
    cap_result       \* <<>> while the call runs, then <<"returned", count>>

capabilityVars == <<cap_call, cap_pos, cap_count, cap_log, cap_result>>

\* a search or resolve request on a connection of its own
VARIABLES
    reader           \* the request, its position, the rows its statement reads,
                     \* and the committed tables at its steps (history)

readerVars == <<reader>>

vars == <<storeVars, matcherVars, locVars, fsVars, queryVars, searchVars,
          resolverVars, screenerVars, ingestVars, uriVars, walkerVars,
          capabilityVars, readerVars>>

notStore == <<matcherVars, locVars, fsVars, queryVars, searchVars,
              resolverVars, screenerVars, ingestVars, uriVars, walkerVars,
              capabilityVars, readerVars>>
notMatcher == <<storeVars, locVars, fsVars, queryVars, searchVars,
                resolverVars, screenerVars, ingestVars, uriVars, walkerVars,
                capabilityVars, readerVars>>
notLocation == <<storeVars, matcherVars, fsVars, queryVars, searchVars,
                 resolverVars, screenerVars, ingestVars, uriVars, walkerVars,
                 capabilityVars, readerVars>>
notFs == <<storeVars, matcherVars, locVars, queryVars, searchVars,
           resolverVars, screenerVars, ingestVars, uriVars, walkerVars,
           capabilityVars, readerVars>>
notQuery == <<storeVars, matcherVars, locVars, fsVars, searchVars,
              resolverVars, screenerVars, ingestVars, uriVars, walkerVars,
              capabilityVars, readerVars>>
notSearch == <<storeVars, matcherVars, locVars, fsVars, queryVars,
               resolverVars, screenerVars, ingestVars, uriVars, walkerVars,
               capabilityVars, readerVars>>
notResolver == <<storeVars, matcherVars, locVars, fsVars, queryVars,
                 searchVars, screenerVars, ingestVars, uriVars, walkerVars,
                 capabilityVars, readerVars>>
notScreener == <<storeVars, matcherVars, locVars, fsVars, queryVars,
                 searchVars, resolverVars, ingestVars, uriVars, walkerVars,
                 capabilityVars, readerVars>>
notIngest == <<storeVars, matcherVars, locVars, fsVars, queryVars,
               searchVars, resolverVars, screenerVars, uriVars, walkerVars,
               capabilityVars, readerVars>>
notUri == <<storeVars, matcherVars, locVars, fsVars, queryVars, searchVars,
            resolverVars, screenerVars, ingestVars, walkerVars,
            capabilityVars, readerVars>>
notWalker == <<storeVars, matcherVars, locVars, fsVars, queryVars,
               searchVars, resolverVars, screenerVars, ingestVars, uriVars,
               capabilityVars, readerVars>>
notCapability == <<storeVars, matcherVars, locVars, fsVars, queryVars,
                   searchVars, resolverVars, screenerVars, ingestVars,
                   uriVars, walkerVars, readerVars>>
notReader == <<storeVars, matcherVars, locVars, fsVars, queryVars,
               searchVars, resolverVars, screenerVars, ingestVars, uriVars,
               walkerVars, capabilityVars>>

(***************************************************************************)
(* Documents handed to upsert().  title and text are word sequences (what  *)
(* the fts5 tokenizer splits them into); file_uri stands for the NOT NULL  *)
(* payload columns and is Null in a document that violates the schema.     *)
(***************************************************************************)
Contents == {<<(<<"v1">>), (<<"old", "content">>)>>,
             <<(<<"v2">>), (<<"new", "searchable", "content">>)>>}
UriValues == {"file:///tmp/x.txt", Null}

Documents ==
    {[file_id |-> f, title |-> c[1], text |-> c[2], file_uri |-> u] :
        f \in FileIds, c \in Contents, u \in UriValues}

\* to_files_db_record: the row to write, both timestamps set to now_iso()
to_files_db_record(doc, t) ==
    [file_id |-> doc.file_id, file_uri |-> doc.file_uri,
     title |-> doc.title, text |-> doc.text,
     record_created_datetime |-> t, record_updated_datetime |-> t]

\* files.id INTEGER PRIMARY KEY: the rowid given to a new row
MaxOf(S) == CHOOSE m \in S : \A x \in S : x <= m
NextRowId(fs) == IF fs = {} THEN 1 ELSE MaxOf({r.id : r \in fs}) + 1

WithId(rec, id) ==
    [id |-> id, file_id |-> rec.file_id, file_uri |-> rec.file_uri,
     title |-> rec.title, text |-> rec.text,
     record_created_datetime |-> rec.record_created_datetime,
     record_updated_datetime |-> rec.record_updated_datetime]

\* ON CONFLICT(file_id) DO UPDATE SET ...: every column from the excluded
\* row but id, file_id and record_created_datetime
DoUpdate_overwritesCreated(old, rec) == WithId(rec, old.id)

DoUpdate(old, rec) ==
    [id |-> old.id, file_id |-> old.file_id, file_uri |-> rec.file_uri,
     title |-> rec.title, text |-> rec.text,
     record_created_datetime |-> old.record_created_datetime,
     record_updated_datetime |-> rec.record_updated_datetime]

\* NOT NULL constraint of the schema on the written row
ViolatesNotNull(rec) == rec.file_uri = Null

(***************************************************************************)
(* Triggers of SCHEMA_SQL.  The fts index is a bag of (rowid, title, text) *)
(* entries; the 'delete' command removes the entry with the given values.  *)
(***************************************************************************)
FtsEntry(row) == [rowid |-> row.id, title |-> row.title, text |-> row.text]

files_ai(fts, new) == fts (+) SetToBag({FtsEntry(new)})

files_ad(fts, old) == fts (-) SetToBag({FtsEntry(old)})

files_au_keepsOld(fts, old, new) == fts (+) SetToBag({FtsEntry(new)})

files_au(fts, old, new) ==
    (fts (-) SetToBag({FtsEntry(old)})) (+) SetToBag({FtsEntry(new)})

\* UPSERT_SQL on the table: the conflicting row is updated in place, else a
\* new row is inserted
Conflicting(fs, rec) == {r \in fs : r.file_id = rec.file_id}

UpsertFiles(fs, rec) ==
    IF Conflicting(fs, rec) = {}
    THEN fs \cup {WithId(rec, NextRowId(fs))}
    ELSE (fs \ Conflicting(fs, rec)) \cup {DoUpdate(old, rec) : old \in Conflicting(fs, rec)}

\* the triggers fired by UPSERT_SQL
RECURSIVE FireUpdates(_, _, _)
FireUpdates(fts, olds, rec) ==
    IF olds = {} THEN fts
    ELSE LET old == CHOOSE o \in olds : TRUE
         IN FireUpdates(files_au(fts, old, DoUpdate(old, rec)), olds \ {old}, rec)

UpsertFts(fs, fts, rec) ==
    IF Conflicting(fs, rec) = {}
    THEN files_ai(fts, WithId(rec, NextRowId(fs)))
    ELSE FireUpdates(fts, Conflicting(fs, rec), rec)

\* full-text query of the tests: MATCH joined to files on rowid
Words(seq) == {seq[i] : i \in 1..Len(seq)}
fts_search(fs, fts, word) ==
    {r.file_id : r \in {x \in fs : \E e \in BagToSet(fts) :
                            /\ e.rowid = x.id
                            /\ word \in Words(e.title) \cup Words(e.text)}}

(***************************************************************************)
(* Decisions of upsert(), transaction() and close()                        *)
(***************************************************************************)
\* upsert(): `if not self._in_transaction: self._connection.commit()`
AutoCommits_always(in_txn) == TRUE

AutoCommits(in_txn) == ~in_txn

\* transaction(): the two guards before the try block
TransactionGuard_allowsNesting(conn, in_txn) ==
    IF conn = Null THEN "RuntimeError" ELSE "ok"

TransactionGuard(conn, in_txn) ==
    IF conn = Null THEN "RuntimeError"
    ELSE IF in_txn THEN "RuntimeError"
    ELSE "ok"

\* Connection.rollback(): the connection's view returns to the committed state
rollback_keepsView(committed, view) == view

rollback(committed, view) == committed

\* transaction(): `finally: self._in_transaction = False`
finally_in_transaction_kept(in_txn) == in_txn

finally_in_transaction(in_txn) == FALSE

\* close(): has_connection
has_connection_always(conn) == TRUE

has_connection(conn) == conn /= Null


(***************************************************************************)
(* FileLocation: path segments and their join                              *)
(***************************************************************************)
MaxSegments == 3         \* longest base_segments / sub_segments tuple built
MaxCandidates == 2       \* longest candidate list given to the matcher

\* A segment is a string, held as its sequence of characters; None is the
\* one-element sequence of the token Null, which is no character.
None == <<Null>>
SegEmpty == <<>>
SegA == <<"a">>
SegB == <<"b">>
SegmentValues == {None, SegEmpty, SegA, SegB}

RECURSIVE SeqsUpTo(_, _)
SeqsUpTo(S, n) ==
    IF n = 0 THEN {<<>>}
    ELSE LET shorter == SeqsUpTo(S, n - 1)
         IN shorter \cup {Append(q, x) : q \in {r \in shorter : Len(r) = n - 1}, x \in S}

\* segments[1:]
Rest(segments) == IF segments = <<>> THEN <<>> ELSE Tail(segments)

\* validate_path_segments: TRUE when it returns, FALSE when it raises
validate_path_segments_ignoresLast(segments) ==
    \/ segments = <<>>
    \/ ~ \E i \in 1..(Len(Rest(segments)) - 1) : Rest(segments)[i] = None

validate_path_segments(segments) ==
    \/ segments = <<>>
    \/ ~ \E i \in 1..Len(Rest(segments)) : Rest(segments)[i] = None

\* _segments_is_absolute: `segments and segments[0] is None`
segments_is_absolute(segments) == segments /= <<>> /\ segments[1] = None

segments_join_alwaysAppends(segments1, segments2) == segments1 \o segments2

segments_join(segments1, segments2) ==
    IF segments_is_absolute(segments2) THEN segments2
    ELSE segments1 \o segments2

\* the segments property
Segments(l) == segments_join(l.base_segments, l.sub_segments)

FileLocation(scheme, authority, base, sub) ==
    [scheme |-> scheme, authority |-> authority,
     base_segments |-> base, sub_segments |-> sub]

Schemes == {"file"}
Authorities == {Null, ""}
SegmentTuples == SeqsUpTo(SegmentValues, MaxSegments)

\* arguments of FileLocation(...) and of FileLocation.from_segments(segments)
ConstructorArgs ==
    {[via |-> "FileLocation", scheme |-> sc, authority |-> au, base |-> base, sub |-> sub] :
        sc \in Schemes, au \in Authorities, base \in SegmentTuples, sub \in SegmentTuples}
FromSegmentsArgs ==
    {[via |-> "from_segments", scheme |-> "file", authority |-> "", base |-> <<>>, sub |-> segs] :
        segs \in SegmentTuples}

NoLocationArgs ==
    [via |-> "none", scheme |-> "file", authority |-> "", base |-> <<>>, sub |-> <<>>]

\* FileLocation(scheme=, authority=, base_segments=, sub_segments=)
Construct ==
    /\ loc_error = "pending"
    /\ loc_args.via = "FileLocation"
    /\ IF validate_path_segments(loc_args.base) /\ validate_path_segments(loc_args.sub)
       THEN /\ loc' = <<FileLocation(loc_args.scheme, loc_args.authority,
                                     loc_args.base, loc_args.sub)>>
            /\ loc_error' = "ok"
       ELSE /\ loc' = <<>>
            /\ loc_error' = "ValidationError"
    /\ UNCHANGED loc_args
    /\ UNCHANGED notLocation

CountNone(segs) == Cardinality({i \in 1..Len(segs) : segs[i] = None})

\* FileLocation.from_segments(segments), default scheme and authority
FromSegments ==
    /\ loc_error = "pending"
    /\ loc_args.via = "from_segments"
    /\ LET segs == loc_args.sub IN
       IF CountNone(segs) > 1 \/ CountNone(Rest(segs)) > 0
       THEN /\ loc' = <<>>
            /\ loc_error' = "ValueError"
       ELSE LET base == IF segments_is_absolute(segs) THEN <<None>> ELSE <<>>
                sub == IF segments_is_absolute(segs) THEN Rest(segs) ELSE segs
            IN IF validate_path_segments(base) /\ validate_path_segments(sub)
               THEN /\ loc' = <<FileLocation(loc_args.scheme, loc_args.authority, base, sub)>>
                    /\ loc_error' = "ok"
               ELSE /\ loc' = <<>>
                    /\ loc_error' = "ValidationError"
    /\ UNCHANGED loc_args
    /\ UNCHANGED notLocation

NextLocation ==
    \/ Construct
    \/ FromSegments

(***************************************************************************)
(* Strings as character sequences, with the str methods the code uses      *)
(***************************************************************************)
MaxTail == 3             \* characters and dot tokens after the anchor of a path

\* s[m-1:n] for 1-based inclusive bounds, clipped to the string like a
\* Python slice
Slice(s, m, n) ==
    IF m > n \/ m > Len(s) THEN <<>>
    ELSE SubSeq(s, m, IF n > Len(s) THEN Len(s) ELSE n)

\* s.find(c, start): index of the first c at or after from, 0 when absent
RECURSIVE Find(_, _, _)
Find(s, c, from) ==
    IF from > Len(s) THEN 0
    ELSE IF s[from] = c THEN from
    ELSE Find(s, c, from + 1)

\* s.split(sep)
RECURSIVE Split(_, _)
Split(s, sep) ==
    LET i == Find(s, sep, 1) IN
    IF i = 0 THEN <<s>>
    ELSE <<Slice(s, 1, i - 1)>> \o Split(Slice(s, i + 1, Len(s)), sep)

\* sep.join(parts)
RECURSIVE Join(_, _)
Join(parts, sep) ==
    IF parts = <<>> THEN <<>>
    ELSE IF Len(parts) = 1 THEN parts[1]
    ELSE parts[1] \o sep \o Join(Tail(parts), sep)

\* s.lstrip(c)
RECURSIVE LStrip(_, _)
LStrip(s, c) ==
    IF s /= <<>> /\ s[1] = c THEN LStrip(Tail(s), c) ELSE s

\* s.replace(a, b) for single characters
Replace(s, a, b) ==
    IF s = <<>> THEN <<>> ELSE [i \in 1..Len(s) |-> IF s[i] = a THEN b ELSE s[i]]

\* s.startswith(prefix)
StartsWith(s, prefix) ==
    Len(prefix) <= Len(s) /\ Slice(s, 1, Len(prefix)) = prefix

\* s[i:] with a 0-based i
From(s, i) == Slice(s, i + 1, Len(s))

\* str.lower()
LowerChar(c) ==
    CASE c = "A" -> "a" [] c = "D" -> "d" [] c = "H" -> "h" [] c = "I" -> "i"
      [] c = "K" -> "k" [] c = "M" -> "m" [] c = "P" -> "p" [] c = "S" -> "s"
      [] OTHER -> c
Lower(s) == [i \in 1..Len(s) |-> LowerChar(s[i])]

Slash == "/"
Backslash == "\\"
Dot == <<".">>
DotDot == <<".", ".">>

(***************************************************************************)
(* os.path.normpath of the host (posixpath or ntpath)                      *)
(***************************************************************************)
\* the component loop of posixpath.normpath
RECURSIVE PosixNormComps(_, _, _)
PosixNormComps(comps, new_comps, initial_slashes) ==
    IF comps = <<>> THEN new_comps
    ELSE LET comp == Head(comps) IN
         IF comp = <<>> \/ comp = Dot
         THEN PosixNormComps(Tail(comps), new_comps, initial_slashes)
         ELSE IF \/ comp /= DotDot
                 \/ (initial_slashes = 0 /\ new_comps = <<>>)
                 \/ (new_comps /= <<>> /\ new_comps[Len(new_comps)] = DotDot)
         THEN PosixNormComps(Tail(comps), Append(new_comps, comp), initial_slashes)
         ELSE IF new_comps /= <<>>
         THEN PosixNormComps(Tail(comps), Slice(new_comps, 1, Len(new_comps) - 1),
                             initial_slashes)
         ELSE PosixNormComps(Tail(comps), new_comps, initial_slashes)

posix_normpath(path) ==
    IF path = <<>> THEN Dot
    ELSE LET initial_slashes ==
                 IF ~StartsWith(path, <<Slash>>) THEN 0
                 ELSE IF StartsWith(path, <<Slash, Slash>>)
                         /\ ~StartsWith(path, <<Slash, Slash, Slash>>) THEN 2
                 ELSE 1
             comps == PosixNormComps(Split(path, Slash), <<>>, initial_slashes)
             joined == [i \in 1..initial_slashes |-> Slash] \o Join(comps, <<Slash>>)
         IN IF joined = <<>> THEN Dot ELSE joined

DriveLetters == {"c", "a", "b"}

\* ntpath.splitdrive on a path whose separators are backslashes:
\* <<drive, rest>>
nt_splitdrive(p) ==
    IF Len(p) >= 2 /\ Slice(p, 1, 2) = <<Backslash, Backslash>>
    THEN LET index == Find(p, Backslash, 3)
             index2 == IF index = 0 THEN 0 ELSE Find(p, Backslash, index + 1)
         IN IF index = 0 \/ index2 = 0 THEN <<p, (<<>>)>>
            ELSE <<Slice(p, 1, index2 - 1), From(p, index2 - 1)>>
    ELSE IF Len(p) >= 2 /\ p[2] = ":" THEN <<Slice(p, 1, 2), From(p, 2)>>
    ELSE <<(<<>>), p>>

\* the component loop of ntpath.normpath; rooted: the prefix ends with a separator
RECURSIVE NtNormComps(_, _, _)
NtNormComps(comps, new_comps, rooted) ==
    IF comps = <<>> THEN new_comps
    ELSE LET comp == Head(comps) IN
         IF comp = <<>> \/ comp = Dot
         THEN NtNormComps(Tail(comps), new_comps, rooted)
         ELSE IF comp = DotDot
         THEN IF new_comps /= <<>> /\ new_comps[Len(new_comps)] /= DotDot
              THEN NtNormComps(Tail(comps), Slice(new_comps, 1, Len(new_comps) - 1), rooted)
              ELSE IF new_comps = <<>> /\ rooted
              THEN NtNormComps(Tail(comps), new_comps, rooted)
              ELSE NtNormComps(Tail(comps), Append(new_comps, comp), rooted)
         ELSE NtNormComps(Tail(comps), Append(new_comps, comp), rooted)

nt_normpath(path) ==
    IF StartsWith(path, <<Backslash, Backslash, ".", Backslash>>) THEN path ELSE
    LET p == Replace(path, Slash, Backslash)
        sd == nt_splitdrive(p)
        rooted == StartsWith(sd[2], <<Backslash>>)
        prefix == IF rooted THEN sd[1] \o <<Backslash>> ELSE sd[1]
        rest == IF rooted THEN LStrip(sd[2], Backslash) ELSE sd[2]
        comps == NtNormComps(Split(rest, Backslash), <<>>, rooted)
    IN IF prefix = <<>> /\ comps = <<>> THEN Dot
       ELSE prefix \o Join(comps, <<Backslash>>)

\* os.path.normpath on the host the program runs on
os_normpath(host, path) ==
    IF host = "posix" THEN posix_normpath(path) ELSE nt_normpath(path)

(***************************************************************************)
(* pathlib.PurePosixPath / PureWindowsPath of one string: drive, root and  *)
(* parts                                                                   *)
(***************************************************************************)
\* _PosixFlavour.splitroot: <<drv, root, rel>>
posix_splitroot(part) ==
    IF part /= <<>> /\ part[1] = Slash
    THEN LET stripped == LStrip(part, Slash) IN
         IF Len(part) - Len(stripped) = 2
         THEN <<(<<>>), (<<Slash, Slash>>), stripped>>
         ELSE <<(<<>>), (<<Slash>>), stripped>>
    ELSE <<(<<>>), (<<>>), part>>

\* _WindowsFlavour.splitroot on a part whose separators are backslashes
windows_splitroot(part) ==
    LET first == Slice(part, 1, 1)
        second == Slice(part, 2, 2)
        third == Slice(part, 3, 3)
        sep == <<Backslash>>
        unc == IF second = sep /\ first = sep /\ third /= sep
               THEN LET index == Find(part, Backslash, 3)
                        index2 == IF index = 0 THEN 0 ELSE Find(part, Backslash, index + 1)
                    IN IF index = 0 \/ index2 = index + 1 THEN <<>>
                       ELSE IF index2 = 0 THEN <<<<part, sep, (<<>>)>>>>
                       ELSE <<<<Slice(part, 1, index2 - 1), sep, From(part, index2)>>>>
               ELSE <<>>
    IN IF unc /= <<>> THEN unc[1]
       ELSE LET has_drive == second = <<":">> /\ first /= <<>> /\ first[1] \in DriveLetters
                drv == IF has_drive THEN Slice(part, 1, 2) ELSE <<>>
                rest == IF has_drive THEN From(part, 2) ELSE part
            IN IF rest /= <<>> /\ rest[1] = Backslash
               THEN <<drv, sep, LStrip(rest, Backslash)>>
               ELSE <<drv, (<<>>), rest>>

\* the components kept by parse_parts: neither empty nor '.'
RECURSIVE KeptComps(_)
KeptComps(comps) ==
    IF comps = <<>> THEN <<>>
    ELSE IF Head(comps) = <<>> \/ Head(comps) = Dot THEN KeptComps(Tail(comps))
    ELSE <<Head(comps)>> \o KeptComps(Tail(comps))

\* Path(path) for Path = PurePosixPath or PureWindowsPath:
\* [drv, root, parts], parts[1] being drv + root when there is one
PurePath(convention, path) ==
    IF path = <<>> THEN [drv |-> <<>>, root |-> <<>>, parts |-> <<>>]
    ELSE LET sep == IF convention = "windows" THEN Backslash ELSE Slash
             part == IF convention = "windows" THEN Replace(path, Slash, Backslash) ELSE path
             sr == IF convention = "windows" THEN windows_splitroot(part)
                   ELSE posix_splitroot(part)
             comps == KeptComps(Split(sr[3], sep))
         IN [drv |-> sr[1], root |-> sr[2],
             parts |-> IF sr[1] /= <<>> \/ sr[2] /= <<>>
                       THEN <<sr[1] \o sr[2]>> \o comps ELSE comps]

\* PurePath.is_absolute
is_absolute(convention, p) ==
    IF p.root = <<>> THEN FALSE
    ELSE convention /= "windows" \/ p.drv /= <<>>

(***************************************************************************)
(* FileLocation: the filesystem projection                                 *)
(***************************************************************************)
\* _filesystem_path_to_segments
filesystem_path_to_segments(convention, path) ==
    IF Len(path.parts) = 0 THEN <<>>
    ELSE LET front_segments == IF is_absolute(convention, path) THEN <<None>> ELSE <<>>
             rest_segments == Tail(path.parts)
             front_parts0 == IF convention = "posix" THEN Split(path.parts[1], Slash)
                             ELSE Split(Replace(path.parts[1], Backslash, Slash), Slash)
             front_parts1 == IF front_parts0 /= <<>> /\ front_parts0[1] = <<>>
                             THEN Tail(front_parts0) ELSE front_parts0
             front_parts2 == IF /\ Len(path.parts) > 1
                                /\ front_parts1 /= <<>>
                                /\ front_parts1[Len(front_parts1)] = <<>>
                             THEN Slice(front_parts1, 1, Len(front_parts1) - 1)
                             ELSE front_parts1
         IN front_segments \o front_parts2 \o rest_segments

\* _segments_to_filesystem_path
segments_to_filesystem_path(segments, path_convention) ==
    IF segments_is_absolute(segments)
    THEN IF path_convention = "windows"
         THEN Join(Tail(segments), <<Slash>>)
         ELSE <<Slash>> \o Join(Tail(segments), <<Slash>>)
    ELSE Join(segments, <<Slash>>)

\* _WindowsFlavour.casefold_parts and _PosixFlavour.casefold_parts
casefold_parts(convention, parts) ==
    IF convention = "windows" THEN [i \in 1..Len(parts) |-> Lower(parts[i])] ELSE parts

\* drive and root as separate parts, then the other parts
AbsParts(p) == IF p.root /= <<>> THEN <<p.drv, p.root>> \o Rest(p.parts) ELSE p.parts

\* p.relative_to(b): <<>> when it raises ValueError, else <<the path>>
relative_to(convention, p, b) ==
    LET n == Len(AbsParts(b)) IN
    IF IF n = 0 THEN p.root /= <<>> \/ p.drv /= <<>>
       ELSE casefold_parts(convention, Slice(AbsParts(p), 1, n))
                /= casefold_parts(convention, AbsParts(b))
    THEN <<>>
    ELSE <<[drv |-> <<>>, root |-> IF n = 1 THEN p.root ELSE <<>>,
            parts |-> From(AbsParts(p), n)]>>

\* _split_path: <<>> when it raises ValueError, else <<base_path, sub_path>>;
\* base_path is None or a string
split_path(convention, path, base_path) ==
    LET p == PurePath(convention, path)
        b == PurePath(convention, IF base_path = None THEN <<>> ELSE base_path)
    IN IF base_path = None \/ base_path = <<>>
       THEN IF ~is_absolute(convention, p) THEN <<>> ELSE <<b, p>>
       ELSE IF ~is_absolute(convention, b) THEN <<>>
       ELSE IF ~is_absolute(convention, p) THEN <<b, p>>
       ELSE IF relative_to(convention, p, b) = <<>> THEN <<b, p>>
       ELSE <<b, relative_to(convention, p, b)[1]>>

\* paths offered to from_filesystem_path: an anchor followed by a tail
SlashSlash == <<Slash, Slash>>
Anchors ==
    {<<>>, <<Slash>>, SlashSlash, <<Slash, Slash, Slash>>,
     <<"c", ":">>, <<"c", ":", Slash>>, <<"c", ":", Backslash>>, <<"c", ":", Slash, Slash>>,
     SlashSlash \o <<"s", Slash, "h">>, SlashSlash \o <<"s", Slash, "h", Slash>>,
     <<Backslash, Backslash, "s", Backslash, "h", Backslash>>}
TailTokens == {Slash, Backslash, ".", "a"}
Paths == {anchor \o tail : anchor \in Anchors, tail \in SeqsUpTo(TailTokens, MaxTail)}

Conventions == {"posix", "windows"}
Hosts == {"posix", "nt"}

FsArgs ==
    [path: Paths, base_path: {None}, path_convention: Conventions, host: Hosts,
     normalize: BOOLEAN]

\* absolute paths and the bases they are split at
BasePaths ==
    {<<Slash>>, <<Slash, "a">>, <<Slash, "a", Slash>>, SlashSlash,
     <<"c", ":", Slash>>, <<"c", ":", Slash, "A">>, SlashSlash \o <<"s", Slash, "h">>}
RootedAnchors ==
    {<<Slash>>, SlashSlash, <<"c", ":", Slash>>, <<"c", ":", Backslash>>,
     SlashSlash \o <<"s", Slash, "h", Slash>>}
RootedPaths ==
    {anchor \o tail : anchor \in RootedAnchors, tail \in SeqsUpTo(TailTokens, MaxTail)}
FsBaseArgs ==
    [path: RootedPaths, base_path: BasePaths, path_convention: Conventions, host: Hosts,
     normalize: BOOLEAN]

NoFsArgs ==
    [path |-> <<>>, base_path |-> None, path_convention |-> "posix", host |-> "posix",
     normalize |-> TRUE]

\* `os.path.normpath(path) if path else path` when normalize is set
Normalized(args, path) ==
    IF args.normalize /\ path /= None /\ path /= <<>> THEN os_normpath(args.host, path)
    ELSE path

\* the FileLocation built from the two paths _split_path returned, or the
\* exception raised on the way: <<"ok", location>> or <<exception>>
LocationOfSplit(c, sp) ==
    IF sp = <<>> THEN <<"ValueError">>
    ELSE IF ~(\/ /\ Len(filesystem_path_to_segments(c, sp[1])) = 0
                 /\ Len(filesystem_path_to_segments(c, sp[2])) > 0
              \/ Len(filesystem_path_to_segments(c, sp[1])) > 0)
    THEN <<"AssertionError">>
    ELSE IF ~(/\ validate_path_segments(filesystem_path_to_segments(c, sp[1]))
              /\ validate_path_segments(filesystem_path_to_segments(c, sp[2])))
    THEN <<"ValidationError">>
    ELSE <<"ok", FileLocation("file", "", filesystem_path_to_segments(c, sp[1]),
                              filesystem_path_to_segments(c, sp[2]))>>

\* FileLocation.from_filesystem_path(path, base_path, path_convention=...)
\* with scheme 'file', authority '' and absolute False
from_filesystem_path(args) ==
    LocationOfSplit(args.path_convention,
                    split_path(args.path_convention, Normalized(args, args.path),
                               Normalized(args, args.base_path)))

\* one call of from_filesystem_path
FromFilesystemPath ==
    /\ fs_error = "pending"
    /\ fs_error' = from_filesystem_path(fs_args)[1]
    /\ fs_loc' = Rest(from_filesystem_path(fs_args))
    /\ UNCHANGED <<fs_args, fs_out>>
    /\ UNCHANGED notFs

\* fs_loc.to_filesystem_path(path_convention)
ToFilesystemPath(path_convention) ==
    /\ fs_loc /= <<>>
    /\ fs_out = <<>>
    /\ fs_out' = <<path_convention,
                   segments_to_filesystem_path(Segments(fs_loc[1]), path_convention)>>
    /\ UNCHANGED <<fs_args, fs_loc, fs_error>>
    /\ UNCHANGED notFs

NextFs ==
    \/ FromFilesystemPath
    \/ \E c \in Conventions : ToFilesystemPath(c)

(***************************************************************************)
(* SimpleFileLocationMatcher                                               *)
(***************************************************************************)
\* target_segments[:n]
Prefix(segments, n) == SubSeq(segments, 1, n)

\* `if len(candidate_segments) > best_len`: a later candidate replaces the
\* best one only when it is strictly longer
IsBetter_orEqual(candidate_len, best_len) == candidate_len >= best_len

IsBetter(candidate_len, best_len) == candidate_len > best_len

\* the loop of find_match_index from candidate i on; best is
\* <<best_index, best_len>> with index 0 standing for None
RECURSIVE MatchLoop(_, _, _, _)
MatchLoop(cands, target, i, best) ==
    IF i > Len(cands) THEN best[1]
    ELSE LET c == cands[i]
             candidate_segments == Segments(c)
             target_segments == Segments(target)
         IN IF c.scheme /= target.scheme THEN MatchLoop(cands, target, i + 1, best)
            ELSE IF c.authority /= target.authority THEN MatchLoop(cands, target, i + 1, best)
            ELSE IF Len(candidate_segments) > Len(target_segments)
                 THEN MatchLoop(cands, target, i + 1, best)
            ELSE IF /\ Prefix(target_segments, Len(candidate_segments)) = candidate_segments
                    /\ IsBetter(Len(candidate_segments), best[2])
                 THEN MatchLoop(cands, target, i + 1, <<i, Len(candidate_segments)>>)
            ELSE MatchLoop(cands, target, i + 1, best)

RECURSIVE FirstMatchLoop(_, _, _)
FirstMatchLoop(cands, target, i) ==
    IF i > Len(cands) THEN 0
    ELSE IF /\ cands[i].scheme = target.scheme
            /\ cands[i].authority = target.authority
            /\ Len(Segments(cands[i])) <= Len(Segments(target))
            /\ Prefix(Segments(target), Len(Segments(cands[i]))) = Segments(cands[i])
         THEN i
         ELSE FirstMatchLoop(cands, target, i + 1)

find_match_index_firstWins(cands, target) == FirstMatchLoop(cands, target, 1)

find_match_index(cands, target) == MatchLoop(cands, target, 1, <<0, -1>>)

\* collection roots and targets offered to the matcher
MatcherLocations(depth) ==
    {FileLocation("file", "", <<None>>, sub) : sub \in SeqsUpTo({SegA, SegB}, depth)}
    \cup {FileLocation(sa[1], sa[2], <<None>>, sub) :
              sa \in {<<"file", Null>>, <<"pkms", "">>}, sub \in {<<>>, <<SegA>>}}
    \cup {FileLocation("file", "", <<>>, <<>>), FileLocation("file", "", <<None, SegA>>, <<SegB>>),
          FileLocation("file", "", <<None, SegA>>, <<None, SegB>>)}
CandidateLocations == MatcherLocations(MaxSegments - 1)
TargetLocations == MatcherLocations(MaxSegments)

\* find_match(file_location), find_match_index included
FindMatch ==
    /\ ~m_called
    /\ LET index == find_match_index(file_locations, m_target[1]) IN
       /\ m_index' = index
       /\ m_match' = IF index /= 0 THEN <<file_locations[index]>> ELSE <<>>
    /\ m_called' = TRUE
    /\ UNCHANGED <<file_locations, m_target>>
    /\ UNCHANGED notMatcher

NextMatcher == FindMatch

NoHist == [f \in FileIds |-> <<>>]
Last(op, result, arg) == [op |-> op, result |-> result, arg |-> arg]
NoArg == "-"

\* history of the upserts a view has seen: <<first timestamp, last record>>
Record(h, rec) ==
    [h EXCEPT ![rec.file_id] =
        IF h[rec.file_id] = <<>> THEN <<rec.record_created_datetime, rec>>
        ELSE <<h[rec.file_id][1], rec>>]

(***************************************************************************)
(* upsert(indexed_document)                                                *)
(***************************************************************************)
Upsert(doc) ==
    \E t \in {now, now + 1} :
      /\ t <= MaxClock
      /\ UNCHANGED notStore
      /\ UNCHANGED <<connection, in_transaction, scope, scope_start, closes>>
      /\ IF connection = Null
         THEN /\ last' = Last("upsert", "RuntimeError", doc.file_id)
              /\ UNCHANGED <<sqlite_txn, files, files_fts, db_files, db_files_fts,
                             now, hist, db_hist, scope_ids>>
         ELSE LET rec == to_files_db_record(doc, t) IN
              /\ now' = t
              /\ IF ViolatesNotNull(rec)
                 THEN \* the statement fails after the implicit BEGIN
                      /\ sqlite_txn' = TRUE
                      /\ last' = Last("upsert", "IntegrityError", doc.file_id)
                      /\ UNCHANGED <<files, files_fts, db_files, db_files_fts, hist,
                                     db_hist, scope_ids>>
                 ELSE /\ files' = UpsertFiles(files, rec)
                      /\ scope_ids' = IF scope = "body" THEN scope_ids \cup {doc.file_id}
                                      ELSE scope_ids
                      /\ files_fts' = UpsertFts(files, files_fts, rec)
                      /\ hist' = Record(hist, rec)
                      /\ last' = Last("upsert", "ok", doc.file_id)
                      /\ IF AutoCommits(in_transaction)
                         THEN /\ db_files' = files'
                              /\ db_files_fts' = files_fts'
                              /\ db_hist' = hist'
                              /\ sqlite_txn' = FALSE
                         ELSE /\ sqlite_txn' = TRUE
                              /\ UNCHANGED <<db_files, db_files_fts, db_hist>>

(***************************************************************************)
(* transaction(): entering the scope (the generator up to its yield)       *)
(***************************************************************************)
EnterTransaction ==
    /\ UNCHANGED notStore
    /\ UNCHANGED <<connection, db_files, db_files_fts, now, db_hist, closes>>
    /\ IF TransactionGuard(connection, in_transaction) /= "ok"
       THEN /\ last' = Last("enter", "RuntimeError", NoArg)
            /\ UNCHANGED <<in_transaction, sqlite_txn, files, files_fts, scope,
                           hist, scope_start, scope_ids>>
       ELSE IF sqlite_txn
       THEN \* execute("BEGIN") fails inside an open sqlite transaction:
            \* except -> rollback, finally -> _in_transaction = False
            /\ last' = Last("enter", "OperationalError", NoArg)
            /\ files' = rollback(db_files, files)
            /\ files_fts' = rollback(db_files_fts, files_fts)
            /\ hist' = rollback(db_hist, hist)
            /\ sqlite_txn' = FALSE
            /\ in_transaction' = finally_in_transaction(in_transaction)
            /\ UNCHANGED <<scope, scope_start, scope_ids>>
       ELSE /\ in_transaction' = TRUE
            /\ sqlite_txn' = TRUE
            /\ scope' = "body"
            /\ scope_start' = <<db_files, db_files_fts>>
            /\ scope_ids' = {}
            /\ last' = Last("enter", "ok", NoArg)
            /\ UNCHANGED <<files, files_fts, hist>>

(***************************************************************************)
(* transaction(): the with-body ends normally (code after the yield)       *)
(***************************************************************************)
ExitScope ==
    /\ UNCHANGED notStore
    /\ scope = "body"
    /\ scope' = "none"
    /\ in_transaction' = finally_in_transaction(in_transaction)
    /\ UNCHANGED <<connection, now, scope_start, scope_ids, closes>>
    /\ IF connection = Null
       THEN \* None.commit() raises, and so does None.rollback()
            /\ last' = Last("exit", "AttributeError", NoArg)
            /\ UNCHANGED <<sqlite_txn, files, files_fts, db_files, db_files_fts,
                           hist, db_hist>>
       ELSE /\ db_files' = files
            /\ db_files_fts' = files_fts
            /\ db_hist' = hist
            /\ sqlite_txn' = FALSE
            /\ last' = Last("exit", "ok", NoArg)
            /\ UNCHANGED <<files, files_fts, hist>>

(***************************************************************************)
(* transaction(): an exception leaves the with-body (thrown at the yield)  *)
(***************************************************************************)
ExitScopeRaise ==
    /\ UNCHANGED notStore
    /\ scope = "body"
    /\ scope' = "none"
    /\ in_transaction' = finally_in_transaction(in_transaction)
    /\ UNCHANGED <<connection, db_files, db_files_fts, now, db_hist, scope_start,
                   scope_ids, closes>>
    /\ IF connection = Null
       THEN /\ last' = Last("exit_raise", "AttributeError", NoArg)
            /\ UNCHANGED <<sqlite_txn, files, files_fts, hist>>
       ELSE /\ files' = rollback(db_files, files)
            /\ files_fts' = rollback(db_files_fts, files_fts)
            /\ hist' = rollback(db_hist, hist)
            /\ sqlite_txn' = FALSE
            /\ last' = Last("exit_raise",
                            IF last.op = "upsert" /\ last.result /= "ok"
                            THEN last.result ELSE "Exception", NoArg)

(***************************************************************************)
(* close()                                                                 *)
(***************************************************************************)
Close ==
    /\ UNCHANGED notStore
    /\ closes < MaxCloses
    /\ closes' = closes + 1
    /\ last' = Last("close", IF has_connection(connection) THEN "True" ELSE "False", NoArg)
    /\ connection' = Null
    /\ UNCHANGED <<in_transaction, db_files, db_files_fts, scope, now, db_hist,
                   scope_start, scope_ids>>
    /\ IF connection /= Null
       THEN \* closing the sqlite connection drops its uncommitted changes
            /\ files' = db_files
            /\ files_fts' = db_files_fts
            /\ hist' = db_hist
            /\ sqlite_txn' = FALSE
       ELSE UNCHANGED <<files, files_fts, hist, sqlite_txn>>

NextStore ==
    \/ \E doc \in Documents : Upsert(doc)
    \/ EnterTransaction
    \/ ExitScope
    \/ ExitScopeRaise
    \/ Close

(***************************************************************************)
(* Sqlite3Searcher: wrap_text_search_query                                 *)
(***************************************************************************)
MaxQuery == 4            \* characters of a free-text query
MaxTerms == 2            \* terms of a query written term by term

Quote == "\""
Dash == "-"
Space == " "
WhitespaceChars == {Space}           \* what \s matches, \S being the rest
AndSeparator == <<" ", "A", "N", "D", " ">>
NotPrefix == <<"N", "O", "T", " ">>

\* Token(text=..., negate=...)
Token(text, negate) == [text |-> text, negate |-> negate]

\* (-?\S+) matching at i: the last index of the run of non-whitespace
RECURSIVE RunEnd(_, _)
RunEnd(s, i) ==
    IF i > Len(s) \/ s[i] \in WhitespaceChars THEN i - 1 ELSE RunEnd(s, i + 1)

\* "([^"]+)" matching at i: the index of the closing quote, 0 when the
\* alternative does not match at i
QuotedEnd(s, i) ==
    IF i > Len(s) \/ s[i] /= Quote THEN 0
    ELSE LET j == Find(s, Quote, i + 1) IN IF j > i + 1 THEN j ELSE 0

\* _TOKEN_PATTERN.findall(query), scanning from i: the (neg_quoted, quoted,
\* bare) tuple of each match, the alternatives tried in the pattern's order
RECURSIVE FindAll(_, _)
FindAll(s, i) ==
    IF i > Len(s) THEN <<>>
    ELSE LET neg_end == IF s[i] = Dash THEN QuotedEnd(s, i + 1) ELSE 0
             quoted_end == QuotedEnd(s, i)
             bare_end == RunEnd(s, i)
         IN IF neg_end /= 0
            THEN << <<Slice(s, i + 2, neg_end - 1), <<>>, <<>>>> >> \o FindAll(s, neg_end + 1)
            ELSE IF quoted_end /= 0
            THEN << << <<>>, Slice(s, i + 1, quoted_end - 1), <<>>>> >> \o FindAll(s, quoted_end + 1)
            ELSE IF bare_end >= i
            THEN << << <<>>, <<>>, Slice(s, i, bare_end)>> >> \o FindAll(s, bare_end + 1)
            ELSE FindAll(s, i + 1)

\* the first loop of wrap_text_search_query: one Token per match
TokenOf_neverNegates(m) ==
    IF m[1] /= <<>> THEN Token(m[1], TRUE)
    ELSE IF m[2] /= <<>> THEN Token(m[2], FALSE)
    ELSE Token(m[3], FALSE)

TokenOf(m) ==
    IF m[1] /= <<>> THEN Token(m[1], TRUE)
    ELSE IF m[2] /= <<>> THEN Token(m[2], FALSE)
    ELSE IF StartsWith(m[3], <<Dash>>) /\ Len(m[3]) > 1 THEN Token(Tail(m[3]), TRUE)
    ELSE Token(m[3], FALSE)

Tokenize(s) == LET matches == FindAll(s, 1) IN [k \in 1..Len(matches) |-> TokenOf(matches[k])]

\* token.text.replace('"', '""')
RECURSIVE DoubleQuotes(_)
DoubleQuotes(text) ==
    IF text = <<>> THEN <<>>
    ELSE (IF text[1] = Quote THEN <<Quote, Quote>> ELSE <<text[1]>>) \o DoubleQuotes(Tail(text))

EscapeQuotes_keepsQuotes(text) == text

EscapeQuotes(text) == DoubleQuotes(text)

\* the second loop: the part emitted for one token
PartOf(token) ==
    LET phrase == <<Quote>> \o EscapeQuotes(token.text) \o <<Quote>>
    IN IF token.negate THEN NotPrefix \o phrase ELSE phrase

\* wrap_text_search_query(query), given its token list
CompileTokens(toks) ==
    IF toks = <<>> THEN <<Quote, Quote>>
    ELSE Join([k \in 1..Len(toks) |-> PartOf(toks[k])], AndSeparator)

wrap_text_search_query(q) == CompileTokens(Tokenize(q))

\* free texts: every string over QueryChars, and texts written term by term
QueryChars == {"a", Dash, Quote, Space, ":"}
QueryStrings == SeqsUpTo(QueryChars, MaxQuery)

\* a term as the user writes it: a bare word or a double-quoted run, with
\* or without a leading '-'
BareWords == {<<"a">>, <<"a", "-", "b">>, <<"a", ":", "b">>, <<"+">>}
QuotedRuns == {<<"a">>, <<"a", " ", "b">>, <<"a", " ", " ", "b">>, <<" ", "a">>, <<"-", "a">>}
WrittenTerms ==
    {[text |-> w, negate |-> n, quoted |-> FALSE] : w \in BareWords, n \in BOOLEAN}
    \cup {[text |-> w, negate |-> n, quoted |-> TRUE] : w \in QuotedRuns, n \in BOOLEAN}
    \cup {[text |-> <<"-", "a">>, negate |-> TRUE, quoted |-> FALSE]}
Written(term) ==
    (IF term.negate THEN <<Dash>> ELSE <<>>)
    \o (IF term.quoted THEN <<Quote>> \o term.text \o <<Quote>> ELSE term.text)
WrittenQuery(terms, gap) == Join([k \in 1..Len(terms) |-> Written(terms[k])], gap)
Gaps == {<<Space>>, <<Space, Space>>}
QueryCases ==
    {[query |-> s, terms |-> <<>>] : s \in QueryStrings}
    \cup {[query |-> WrittenQuery(ts, gap), terms |-> <<ts>>] :
             ts \in SeqsUpTo(WrittenTerms, MaxTerms) \ {<<>>}, gap \in Gaps}

\* one call of wrap_text_search_query(query)
WrapTextSearchQuery ==
    /\ compiled = <<>>
    /\ tokens' = <<Tokenize(query)>>
    /\ compiled' = <<wrap_text_search_query(query)>>
    /\ UNCHANGED <<query, query_terms>>
    /\ UNCHANGED notQuery

NextQuery == WrapTextSearchQuery

(***************************************************************************)
(* The fts5 engine behind SEARCH_SQL: the MATCH expression is lexed and    *)
(* parsed, then evaluated against the indexed columns of each row          *)
(***************************************************************************)
\* a string of the MATCH expression scanned from j: the index of its closing
\* quote, a doubled quote being an escaped quote; 0 when it never closes
RECURSIVE PhraseEnd(_, _)
PhraseEnd(s, j) ==
    IF j > Len(s) THEN 0
    ELSE IF s[j] /= Quote THEN PhraseEnd(s, j + 1)
    ELSE IF j < Len(s) /\ s[j + 1] = Quote THEN PhraseEnd(s, j + 2)
    ELSE j

\* the text of a string, its doubled quotes read as single quotes
RECURSIVE Unescaped(_)
Unescaped(text) ==
    IF text = <<>> THEN <<>>
    ELSE IF text[1] = Quote THEN <<Quote>> \o Unescaped(From(text, 2))
    ELSE <<text[1]>> \o Unescaped(Tail(text))


Letters == {"a", "b"}
KeywordChars == {"A", "N", "D", "O", "T", "R"}

\* the tokenizer of the index: the words of a text, a word being a maximal
\* run of letters
RECURSIVE LetterRunEnd(_, _)
LetterRunEnd(s, i) ==
    IF i > Len(s) \/ s[i] \notin Letters THEN i - 1 ELSE LetterRunEnd(s, i + 1)

RECURSIVE Fts5Words(_)
Fts5Words(s) ==
    IF s = <<>> THEN <<>>
    ELSE IF s[1] \notin Letters THEN Fts5Words(Tail(s))
    ELSE <<Slice(s, 1, LetterRunEnd(s, 1))>> \o Fts5Words(From(s, LetterRunEnd(s, 1)))

RECURSIVE BarewordEnd(_, _)
BarewordEnd(s, i) ==
    IF i > Len(s) \/ s[i] \notin (Letters \cup KeywordChars) THEN i - 1
    ELSE BarewordEnd(s, i + 1)

\* the lexer of the MATCH expression: strings, barewords, the keywords AND,
\* OR and NOT, and every other character as a token of its own
RECURSIVE Fts5Lex(_)
Fts5Lex(s) ==
    IF s = <<>> THEN <<>>
    ELSE IF s[1] \in WhitespaceChars THEN Fts5Lex(Tail(s))
    ELSE IF s[1] = Quote
    THEN LET close == PhraseEnd(s, 2) IN
         IF close = 0 THEN <<[type |-> "unterminated", text |-> <<>>]>>
         ELSE <<[type |-> "STRING", text |-> Unescaped(Slice(s, 2, close - 1))]>>
              \o Fts5Lex(From(s, close))
    ELSE IF s[1] \in Letters \cup KeywordChars
    THEN LET word == Slice(s, 1, BarewordEnd(s, 1))
             type == IF word = <<"A", "N", "D">> THEN "AND"
                     ELSE IF word = <<"N", "O", "T">> THEN "NOT"
                     ELSE IF word = <<"O", "R">> THEN "OR"
                     ELSE "STRING"
         IN <<[type |-> type, text |-> word]>> \o Fts5Lex(From(s, Len(word)))
    ELSE <<[type |-> s[1], text |-> <<>>]>> \o Fts5Lex(Tail(s))

\* the parser, for expressions of phrases and binary operators: NOT is a
\* binary operator (a NOT b), as are AND and OR; two phrases in a row are an
\* implicit AND.  FALSE is the engine's "fts5: syntax error"
RECURSIVE Fts5Accepts(_, _)
Fts5Accepts(toks, expect_phrase) ==
    IF toks = <<>> THEN ~expect_phrase
    ELSE IF toks[1].type = "STRING" THEN Fts5Accepts(Tail(toks), FALSE)
    ELSE IF toks[1].type \in {"AND", "OR", "NOT"}
    THEN ~expect_phrase /\ Fts5Accepts(Tail(toks), TRUE)
    ELSE FALSE

Fts5SyntaxOk(expr) == Fts5Accepts(Fts5Lex(expr), TRUE)

\* a phrase matches a column that holds its words in a row; a phrase without
\* words matches nothing
PhraseInColumn(words, column) ==
    /\ words /= <<>>
    /\ \E i \in 1..Len(column) : Slice(column, i, i + Len(words) - 1) = words

PhraseMatches(text, row) ==
    \/ PhraseInColumn(Fts5Words(text), Fts5Words(row.title))
    \/ PhraseInColumn(Fts5Words(text), Fts5Words(row.text))

\* evaluation, left to right: a AND b, a NOT b, a OR b
RECURSIVE Fts5Eval(_, _, _, _)
Fts5Eval(toks, row, acc, op) ==
    IF toks = <<>> THEN acc
    ELSE IF toks[1].type = "STRING"
    THEN LET m == PhraseMatches(toks[1].text, row)
             v == IF op = "AND" THEN acc /\ m
                  ELSE IF op = "NOT" THEN acc /\ ~m
                  ELSE acc \/ m
         IN Fts5Eval(Tail(toks), row, v, "AND")
    ELSE Fts5Eval(Tail(toks), row, acc, toks[1].type)

Fts5Match(expr, row) == Fts5Eval(Fts5Lex(expr), row, TRUE, "AND")

\* the rows of a set in rowid order
RECURSIVE ByRowId(_)
ByRowId(rows) ==
    IF rows = {} THEN <<>>
    ELSE LET first == CHOOSE r \in rows : \A x \in rows : r.id <= x.id
         IN <<first>> \o ByRowId(rows \ {first})

\* LIMIT ? OFFSET ?: a negative LIMIT is no limit, a negative OFFSET is 0
SqlLimit(rows, limit, offset) ==
    LET skipped == From(rows, IF offset < 0 THEN 0 ELSE offset)
    IN IF limit < 0 THEN skipped ELSE Slice(skipped, 1, limit)

\* SEARCH_SQL with its three parameters: <<"OperationalError">> when the
\* engine rejects the MATCH expression, else <<"rows", the rows selected>>.
\* The engine orders by bm25; the model orders by rowid
SEARCH_SQL(db, match, limit, offset) ==
    IF ~Fts5SyntaxOk(match) THEN <<"OperationalError">>
    ELSE <<"rows", SqlLimit(ByRowId({r \in db : Fts5Match(match, r)}), limit, offset)>>

(***************************************************************************)
(* Sqlite3Searcher.search                                                  *)
(***************************************************************************)
MaxRequested == 3        \* largest limit a caller requests

Threads == {"t1", "t2"}
Connections == {"conn-t1", "conn-t2"}

\* rows of the database searched: more rows match "a" than max_limit allows
SearcherRows ==
    {[id |-> 1, file_id |-> <<"f", "1">>, file_extension |-> <<".", "h">>,
      title |-> <<"a">>, text |-> <<"a", " ", "b">>,
      file_uri |-> "file:///f1.h", origin_uri |-> "https://example.com"],
     [id |-> 2, file_id |-> <<"f", "2">>, file_extension |-> <<".", "h">>,
      title |-> <<"b">>, text |-> <<"b", " ", "a">>,
      file_uri |-> "file:///f2.h", origin_uri |-> Null],
     [id |-> 3, file_id |-> <<"f", "3">>, file_extension |-> <<".", "m">>,
      title |-> <<"a", " ", "b">>, text |-> <<"b">>,
      file_uri |-> "file:///f3.m", origin_uri |-> Null]}
ConfiguredLimits == {1, 2}

\* SearchArguments offered by the callers
SearchTexts ==
    {<<>>, <<Space>>, <<"a">>, <<"b">>, <<"a", Space, "b">>, <<Quote, "a", Space, "b", Quote>>,
     <<Dash, "b">>, <<"a", Space, Dash, "b">>, <<":">>}
SearchArgumentValues ==
    [query : SearchTexts, limit : -1..MaxRequested, offset : {0, 1}]
SecondCallValues ==
    [query : {<<"a">>, <<Dash, "b">>}, limit : {1, MaxRequested}, offset : {0}]

NoCall == [pc |-> "idle", args |-> [query |-> <<>>, limit |-> 0, offset |-> 0],
           limit |-> 0, query |-> <<>>, conn |-> Null, rows |-> <<>>,
           error |-> Null, result |-> <<>>]
NewCall(args) == [NoCall EXCEPT !.pc = "new", !.args = args]

Min(a, b) == IF a <= b THEN a ELSE b

\* self._connect(): a connection of its own for every call
connect(t) == IF t = "t1" THEN "conn-t1" ELSE "conn-t2"

\* SearchHit(...) built from one row of the cursor; snippet and score are not
\* modelled
SearchHit(row) ==
    [file_id |-> row.file_id \o row.file_extension,
     title |-> row.title,
     file_uri |-> row.file_uri,
     origin_uri |-> row.origin_uri]

SearchResult(args, limit, rows) ==
    [query |-> args.query, limit |-> limit, offset |-> args.offset,
     hits |-> [k \in 1..Len(rows) |-> SearchHit(rows[k])]]

\* SearchArguments(query=..., limit=..., offset=...): query has min_length 1
SearchArguments(t) ==
    /\ search[t].pc = "new"
    /\ search' = [search EXCEPT ![t] =
           IF Len(search[t].args.query) < 1
           THEN [@ EXCEPT !.pc = "raised", !.error = "ValidationError"]
           ELSE [@ EXCEPT !.pc = "start"]]
    /\ UNCHANGED <<searcher_db, max_limit, cursors>>
    /\ UNCHANGED notSearch

\* search(): the limit, the compiled query and the connection
SearchConnect(t) ==
    /\ search[t].pc = "start"
    /\ LET args == search[t].args IN
       search' = [search EXCEPT ![t] =
           [@ EXCEPT !.pc = "connected",
                     !.limit = Min(args.limit, max_limit),
                     !.query = wrap_text_search_query(args.query),
                     !.conn = connect(t)]]
    /\ UNCHANGED <<searcher_db, max_limit, cursors>>
    /\ UNCHANGED notSearch

\* search(): conn.execute(SEARCH_SQL, (query, limit, args.offset))
SearchExecute(t) ==
    /\ search[t].pc = "connected"
    /\ LET c == search[t]
           outcome == SEARCH_SQL(searcher_db, c.query, c.limit, c.args.offset)
       IN IF outcome[1] = "OperationalError"
          THEN /\ search' = [search EXCEPT ![t] =
                      [@ EXCEPT !.pc = "raised", !.error = "OperationalError"]]
               /\ UNCHANGED cursors
          ELSE /\ search' = [search EXCEPT ![t] = [@ EXCEPT !.pc = "executed"]]
               /\ cursors' = [cursors EXCEPT ![c.conn] = <<outcome[2]>>]
    /\ UNCHANGED <<searcher_db, max_limit>>
    /\ UNCHANGED notSearch

\* search(): cur.fetchall(), the hits and the SearchResult returned
SearchReturn(t) ==
    /\ search[t].pc = "executed"
    /\ LET c == search[t]
           rows == IF cursors[c.conn] = <<>> THEN <<>> ELSE cursors[c.conn][1]
       IN /\ search' = [search EXCEPT ![t] =
                 [@ EXCEPT !.pc = "returned", !.rows = rows,
                           !.result = <<SearchResult(c.args, c.limit, rows)>>]]
          /\ cursors' = [cursors EXCEPT ![c.conn] = <<>>]
    /\ UNCHANGED <<searcher_db, max_limit>>
    /\ UNCHANGED notSearch

NextSearch ==
    \E t \in Threads :
        \/ SearchArguments(t)
        \/ SearchConnect(t)
        \/ SearchExecute(t)
        \/ SearchReturn(t)

(***************************************************************************)
(* UriResolver.resolve: urllib.parse.urlparse, the grammar checks and the  *)
(* lookup                                                                  *)
(***************************************************************************)
LowerLetters == {"a", "d", "e", "f", "h", "i", "k", "l", "m", "n", "o", "p", "s", "t", "u", "x", "z"}
UpperLetters == {"A", "D", "H", "I", "K", "M", "P", "S"}
Digits == {"2", "5", "6"}
SchemeChars == LowerLetters \cup UpperLetters \cup Digits \cup {"+", "-", "."}

\* s.rstrip(c) and s.strip(c)
RECURSIVE RStrip(_, _)
RStrip(s, c) ==
    IF s /= <<>> /\ s[Len(s)] = c THEN RStrip(Slice(s, 1, Len(s) - 1), c) ELSE s
Strip(s, c) == RStrip(LStrip(s, c), c)

\* s.split(c, 1)
SplitOnce(s, c) ==
    LET i == Find(s, c, 1) IN
    IF i = 0 THEN <<s>> ELSE <<Slice(s, 1, i - 1), From(s, i)>>

\* index of the first character of s, at or after from, that is in cs; 0
\* when there is none
RECURSIVE FindAny(_, _, _)
FindAny(s, cs, from) ==
    IF from > Len(s) THEN 0
    ELSE IF s[from] \in cs THEN from
    ELSE FindAny(s, cs, from + 1)

\* urllib.parse.urlparse(uri): scheme (lower-cased), netloc and path
urlparse(uri) ==
    LET i == Find(uri, ":", 1)
        has_scheme == /\ i > 1
                      /\ uri[1] \in LowerLetters \cup UpperLetters
                      /\ \A k \in 1..(i - 1) : uri[k] \in SchemeChars
        scheme == IF has_scheme THEN Lower(Slice(uri, 1, i - 1)) ELSE <<>>
        url == IF has_scheme THEN From(uri, i) ELSE uri
        has_netloc == Slice(url, 1, 2) = <<"/", "/">>
        delim == FindAny(url, {"/", "?", "#"}, 3)
        netloc == IF ~has_netloc THEN <<>>
                  ELSE IF delim = 0 THEN From(url, 2) ELSE Slice(url, 3, delim - 1)
        after == IF ~has_netloc THEN url
                 ELSE IF delim = 0 THEN <<>> ELSE From(url, delim - 1)
        cut == FindAny(after, {"?", "#"}, 1)
        path == IF cut = 0 THEN after ELSE Slice(after, 1, cut - 1)
    IN [scheme |-> scheme, netloc |-> netloc, path |-> path]

(***************************************************************************)
(* FileLocation: the uri projection and from_uri                           *)
(***************************************************************************)
\* urllib.parse.quote(segment, safe=''): the characters outside the
\* unreserved set, with their percent encodings
PercentEncoded ==
    { <<"/", <<"%", "2", "F">>>>, <<"%", <<"%", "2", "5">>>>, <<" ", <<"%", "2", "0">>>>, <<":", <<"%", "3", "A">>>>,
      <<"?", <<"%", "3", "F">>>>, <<"#", <<"%", "2", "3">>>> }

quote_char(c) ==
    IF \E e \in PercentEncoded : e[1] = c
    THEN (CHOOSE e \in PercentEncoded : e[1] = c)[2]
    ELSE <<c>>

RECURSIVE quote(_)
quote(segment) ==
    IF segment = <<>> THEN <<>> ELSE quote_char(Head(segment)) \o quote(Tail(segment))

\* urllib.parse.unquote(part)
RECURSIVE unquote(_)
unquote(part) ==
    IF part = <<>> THEN <<>>
    ELSE IF \E e \in PercentEncoded : e[2] = Slice(part, 1, 3)
    THEN <<(CHOOSE e \in PercentEncoded : e[2] = Slice(part, 1, 3))[1]>>
             \o unquote(From(part, 3))
    ELSE <<Head(part)>> \o unquote(Tail(part))

\* map(lambda segment: quote(segment, safe='') if segment is not None else '')
QuotedSegments(segments) ==
    [i \in 1..Len(segments) |-> IF segments[i] = None THEN <<>> ELSE quote(segments[i])]

\* _segments_to_uri_path
segments_to_uri_path(segments) ==
    IF segments = <<None>> THEN <<"/">>
    ELSE Join(QuotedSegments(segments), <<"/">>)

\* the uri property: <<"TypeError">> when '//' + self.authority is the sum
\* of a str and None (the condition `self is not None` always holds), else
\* <<"ok", the uri>>
Uri(l) ==
    IF l.authority = None THEN <<"TypeError">>
    ELSE <<"ok", l.scheme \o <<":", "/", "/">> \o l.authority
                     \o segments_to_uri_path(Segments(l))>>

\* the parts of a path around its slashes, each unquoted
UnquotedParts_raw(parts) == parts

UnquotedParts(parts) == [i \in 1..Len(parts) |-> unquote(parts[i])]

\* uri_path_to_segments
uri_path_to_segments(path) ==
    IF path = <<>> THEN <<>>
    ELSE IF Head(path) = "/" THEN <<None>> \o UnquotedParts(Split(Tail(path), "/"))
    ELSE UnquotedParts(Split(path, "/"))

\* segments_try_relative_to
segments_try_relative_to(full, base) ==
    IF Slice(full, 1, Len(base)) /= base THEN full ELSE From(full, Len(base))

\* FileLocation.from_uri(uri), base_uri_path None
from_uri(text) ==
    LET stripped == LStrip(text, " ")
        parsed == urlparse(stripped)
        path_segments == uri_path_to_segments(parsed.path)
        is_empty_authority ==
            IF parsed.scheme /= <<>>
            THEN StartsWith(From(stripped, Len(parsed.scheme)), <<":", "/", "/">>)
            ELSE StartsWith(stripped, <<"/", "/">>)
    IN FileLocation(parsed.scheme,
                    IF parsed.netloc = <<>> /\ ~is_empty_authority THEN None
                    ELSE parsed.netloc,
                    <<>>, segments_try_relative_to(path_segments, <<>>))

PKMS == <<"p", "k", "m", "s">>
FILE == <<"f", "i", "l", "e">>
ID == <<"i", "d">>
UID == <<"u", "i", "d">>
SHA256 == <<"s", "h", "a", "2", "5", "6">>

\* the lookup of _resolve_by_selector: the rows its SELECT matches
SelectBy(db, selector, value, ext) ==
    IF selector = ID THEN {r \in db : r.file_id = value /\ r.file_extension = ext}
    ELSE IF selector = UID THEN {r \in db : r.file_uid = value}
    ELSE {r \in db : r.file_hash_sha256 = value}

\* ResolvedTarget(...) of the row found
ResolvedTarget(row) ==
    [status |-> "OK", file_id |-> row.file_id, file_extension |-> row.file_extension,
     file_kind |-> row.file_kind, title |-> row.title,
     file_location |-> from_uri(row.file_uri), file_type |-> "REGULAR"]

\* _resolve_by_selector(selector, value, ext)
resolve_by_selector(db, selector, value, ext) ==
    IF selector \notin {ID, UID, SHA256} THEN <<"ValueError">>
    ELSE LET rows == SelectBy(db, selector, value, ext) IN
         IF rows = {} THEN <<"LookupError">>
         ELSE <<"ok", ResolvedTarget(CHOOSE r \in rows : \A x \in rows : r.id <= x.id)>>

\* the check that an extension follows the value
ExtensionGiven(rest) == Find(rest, ".", 1) /= 0

\* resolve(uri)
resolve(db, uri) ==
    LET parsed == urlparse(uri)
        path_parts == Split(Strip(parsed.path, "/"), "/")
        selector_rest == SplitOnce(path_parts[2], ":")
        value_ext == SplitOnce(selector_rest[2], ".")
    IN IF parsed.scheme /= PKMS THEN <<"ValueError">>
       ELSE IF Len(path_parts) /= 2 THEN <<"ValueError">>
       ELSE IF path_parts[1] /= FILE THEN <<"ValueError">>
       ELSE IF Len(selector_rest) /= 2 THEN <<"ValueError">>
       ELSE IF ~ExtensionGiven(selector_rest[2]) THEN <<"ValueError">>
       ELSE resolve_by_selector(db, selector_rest[1], Lower(value_ext[1]),
                                IF Len(value_ext) = 2 THEN <<".">> \o Lower(value_ext[2])
                                ELSE <<>>)

FileScheme == <<"f", "i", "l", "e">>

\* the locations of the files ingested, by row id: from_filesystem_path of
\* an absolute path (ingest_file, ingest_files), or of a path below the
\* base path of a collection (glob)
IngestedLocation(id) ==
    IF id = 1 THEN FileLocation(FileScheme, <<>>, <<>>, <<None, <<"a", ".", "h">>>>)
    ELSE IF id = 2 THEN FileLocation(FileScheme, <<>>, <<None, <<"d">>>>, <<<<"d", ".", "m">>>>)
    ELSE IF id = 3 THEN FileLocation(FileScheme, <<>>, <<None, <<"d">>>>, <<<<"x", "%">>, <<"a", ".", "d", " ", "t", ".", "h">>>>)
    ELSE FileLocation(FileScheme, <<>>, <<>>, <<None, <<"D", ":">>, <<"D", " ", "t", ".", "h">>>>)

\* HtmlIndexer.index: "file_uri": file_location.uri
IndexedUri(file_location) == Uri(file_location)[2]

\* rows of the database resolved against
ResolverRows ==
    {[id |-> 1, file_id |-> <<"a">>, file_uid |-> <<"u">>, file_hash_sha256 |-> <<"5", "5">>,
      file_extension |-> <<".", "h">>, file_kind |-> "snapshot", title |-> "A",
      file_uri |-> IndexedUri(IngestedLocation(1))],
     [id |-> 2, file_id |-> <<"d">>, file_uid |-> None, file_hash_sha256 |-> <<"6", "6">>,
      file_extension |-> <<".", "m">>, file_kind |-> "editable", title |-> "D",
      file_uri |-> IndexedUri(IngestedLocation(2))],
     [id |-> 3, file_id |-> <<"a", ".", "d">>, file_uid |-> None, file_hash_sha256 |-> <<"7", "7">>,
      file_extension |-> <<".", "h">>, file_kind |-> "snapshot", title |-> "AD",
      file_uri |-> IndexedUri(IngestedLocation(3))],
     [id |-> 4, file_id |-> <<"D">>, file_uid |-> None, file_hash_sha256 |-> <<"8", "8">>,
      file_extension |-> <<".", "h">>, file_kind |-> "snapshot", title |-> "D2",
      file_uri |-> IndexedUri(IngestedLocation(4))]}

\* uris offered to resolve(): scheme, authority, path around the selector
\* part, and the selector part
UriSchemes == {<<"p", "k", "m", "s", ":">>, <<"P", "K", "M", "S", ":">>, <<"f", "i", "l", "e", ":">>, <<"p", "k", "m", ":">>, <<>>}
UriAuthorities == {<<"/", "/">>, <<"/", "/", "h">>, <<>>}
UriResources == {<<"/", "f", "i", "l", "e", "/">>, <<"/">>, <<"/", "n", "o", "t", "e", "/">>, <<"/", "f", "i", "l", "e", "/", "x", "/">>, <<"/", "/", "f", "i", "l", "e", "/">>, <<"f", "i", "l", "e", "/">>}
UriSelectorParts ==
    {<<"i", "d", ":", "a", ".", "h">>, <<"i", "d", ":", "A", ".", "H">>, <<"i", "d", ":", "d", ".", "m">>, <<"i", "d", ":", "z", ".", "h">>, <<"i", "d", ":", "a">>, <<"i", "d", ":", "a", ".">>, <<"i", "d", ":", ".", "h">>, <<"i", "d", ":", "a", ".", "h", "/">>,
     <<"u", "i", "d", ":", "u", ".", "h">>, <<"u", "i", "d", ":", "u">>, <<"s", "h", "a", "2", "5", "6", ":", "5", "5", ".", "h">>, <<"s", "h", "a", "2", "5", "6", ":", "2", ".", "h">>, <<"s", "h", "a", "2", "5", "6", ":", "7", "7", ".", "h">>, <<"a", ".", "h">>, <<":", "a", ".", "h">>, <<"I", "D", ":", "a", ".", "h">>,
     <<"x", ":", "a", ".", "h">>, <<"i", "d", ":", "a", ".", "h", "?", "x">>, <<"i", "d", ":", "a", ".", "d", ".", "h">>, <<"i", "d", ":", "D", ".", "h">>, <<>>}
Uris == {s \o a \o r \o p : s \in UriSchemes, a \in UriAuthorities, r \in UriResources,
                          p \in UriSelectorParts}

\* one call of resolve(uri)
Resolve ==
    /\ resolved = <<>>
    /\ resolved' = resolve(resolver_db, resolve_uri)
    /\ UNCHANGED <<resolver_db, resolve_uri>>
    /\ UNCHANGED notResolver

NextResolver == Resolve

(***************************************************************************)
(* parse_file_name                                                         *)
(***************************************************************************)
MaxScreened == 3         \* longest candidate list given to screen()

Bang == "!"
BraceOpen == "{"
BraceClose == "}"
Colon == ":"
ExtensionChars == {"a", "b", "h", "_", "0"}   \* what [_a-zA-Z0-9] matches here

\* the first index at or after i whose character is outside chars,
\* Len(s) + 1 when there is none: where a greedy run of chars stops
RECURSIVE RunOf(_, _, _)
RunOf(s, chars, i) ==
    IF i > Len(s) \/ s[i] \notin chars THEN i ELSE RunOf(s, chars, i + 1)

\* the first index at or after i whose character is in chars, Len(s) + 1
\* when there is none: where a greedy run of the other characters stops
RECURSIVE RunUntil(_, _, _)
RunUntil(s, chars, i) ==
    IF i > Len(s) \/ s[i] \in chars THEN i ELSE RunUntil(s, chars, i + 1)

\* s matches ((:?\.[_a-zA-Z0-9]*)*)$ as a whole
RECURSIVE IsExtension(_)
IsExtension(s) ==
    IF s = <<>> THEN TRUE
    ELSE LET dot == IF s[1] = Colon THEN 2 ELSE 1 IN
         /\ dot <= Len(s)
         /\ s[dot] = "."
         /\ IsExtension(From(s, RunOf(s, ExtensionChars, dot + 1) - 1))

\* the lazy [\s\S]*? before the extension: the first index at or after i
\* from which the rest of the name is an extension
RECURSIVE ExtensionStart(_, _)
ExtensionStart(s, i) ==
    IF i > Len(s) \/ IsExtension(From(s, i - 1)) THEN i ELSE ExtensionStart(s, i + 1)

\* pathlib.Path(file_path).name
PathName(file_path) ==
    LET p == PurePath("posix", file_path)
        anchored == p.drv /= <<>> \/ p.root /= <<>>
    IN IF Len(p.parts) = (IF anchored THEN 1 ELSE 0) THEN <<>>
       ELSE p.parts[Len(p.parts)]

\* The positions the pattern's groups end at, for a name whose first
\* whitespace is at index space: after \s+, after (!*), after \s* (where the
\* title starts), and where the title ([^\{.]*) stops
AfterSpace(name, space) == RunOf(name, WhitespaceChars, space)
AfterBangs(name, space) == RunOf(name, {Bang}, AfterSpace(name, space))
TitleStart(name, space) == RunOf(name, WhitespaceChars, AfterBangs(name, space))
TitleEnd(name, space) == RunUntil(name, {BraceOpen, "."}, TitleStart(name, space))

\* the index of the brace closing the context (?:{([^}]*)})? that opens at
\* brace, 0 when there is no context
ContextEnd(name, brace) ==
    IF brace <= Len(name) /\ name[brace] = BraceOpen
    THEN Find(name, BraceClose, brace + 1) ELSE 0

\* the dict built from the groups of the match
FileNameGroups(name, space, after_space, after_bangs, title_start, brace, closing) ==
    [name |-> name,
     id |-> Slice(name, 1, space - 1),
     importance |-> after_bangs - after_space,
     title |-> Slice(name, title_start, brace - 1),
     context |-> IF closing = 0 THEN None ELSE Slice(name, brace + 1, closing - 1),
     extension |-> From(name, ExtensionStart(name, IF closing = 0 THEN brace
                                                   ELSE closing + 1) - 1)]

\* re.match(pattern, name): <<>> for None, else <<the groups>>; the pattern
\* matches exactly the names that hold whitespace
MatchFileName(name, space) ==
    IF space > Len(name) THEN <<>>
    ELSE <<FileNameGroups(name, space, AfterSpace(name, space), AfterBangs(name, space),
                          TitleStart(name, space), TitleEnd(name, space),
                          ContextEnd(name, TitleEnd(name, space)))>>

FirstWhitespace(name) == RunUntil(name, WhitespaceChars, 1)

\* parse_file_name: <<"RuntimeError">> when the pattern does not match, else
\* <<"ok", the dict returned>>
ParseName(name, m) ==
    IF m = <<>> THEN <<"RuntimeError">> ELSE <<"ok", m[1]>>

parse_file_name(file_path) ==
    ParseName(PathName(file_path),
              MatchFileName(PathName(file_path), FirstWhitespace(PathName(file_path))))

(***************************************************************************)
(* SimpleScreener.screen                                                   *)
(***************************************************************************)
APPROVED == "APPROVED"
REJECTED == "REJECTED"

\* What the filesystem holds at a candidate's path: nothing (stat raises
\* FileNotFoundError), a file that cannot be opened (the hash raises
\* PermissionError) or a file that can be read.
Absent == [exists |-> FALSE, readable |-> FALSE, size |-> 0]
Unreadable == [exists |-> TRUE, readable |-> FALSE, size |-> 1]
Readable == [exists |-> TRUE, readable |-> TRUE, size |-> 1]
DiskEntries == {Absent, Unreadable, Readable}

\* file_path.stat(): <<the exception>> or <<"ok", st_size>>
stat(on_disk) ==
    IF on_disk.exists THEN <<"ok", on_disk.size>> ELSE <<"FileNotFoundError">>

\* get_file_hash_sha256: <<the exception>> or <<"ok", the digest>>
get_file_hash_sha256(on_disk) ==
    IF on_disk.readable THEN <<"ok", "sha256">> ELSE <<"PermissionError">>

\* FileStamp(...) as built from the parsed name, the stat and the hash
FileStamp(parsed, size, hash_sha256) ==
    [id |-> parsed.id, uid |-> None, extension |-> parsed.extension,
     kind |-> "snapshot", title |-> parsed.title, importance |-> parsed.importance,
     size |-> size, hash_sha256 |-> hash_sha256]

\* file_stamp is <<>> for None and <<the FileStamp>> otherwise; reason is None
\* or str(e), held as the one-element sequence of the exception's name
ScreeningResult(status, file_location, file_stamp, reason) ==
    [status |-> status, file_location |-> file_location,
     file_stamp |-> file_stamp, reason |-> reason]

\* the try block of the loop body, for a name that parsed: the result appended
ScreenOne(candidate, parsed) ==
    LET st == stat(candidate.on_disk)
        hash == get_file_hash_sha256(candidate.on_disk)
    IN IF st[1] /= "ok"
       THEN ScreeningResult(REJECTED, candidate.segments, <<>>, <<st[1]>>)
       ELSE IF hash[1] /= "ok"
       THEN ScreeningResult(REJECTED, candidate.segments, <<>>, <<hash[1]>>)
       ELSE ScreeningResult(APPROVED, candidate.segments,
                            <<FileStamp(parsed, st[2], hash[2])>>, None)

\* the loop of screen() from candidate i on, results being the list so far:
\* <<"raised", the exception>> or <<"returned", the results>>
RECURSIVE ScreenLoop(_, _, _)
ScreenLoop(cands, i, results) ==
    IF i > Len(cands) THEN <<"returned", results>>
    ELSE LET file_path == segments_to_filesystem_path(cands[i].segments, "posix")
             file_name_parsed == parse_file_name(file_path)
         IN IF file_name_parsed[1] /= "ok" THEN <<"raised", file_name_parsed[1]>>
            ELSE ScreenLoop(cands, i + 1,
                            Append(results, ScreenOne(cands[i], file_name_parsed[2])))

screen(cands) == ScreenLoop(cands, 1, <<>>)

\* File names of the candidates: two that follow the naming convention
\* "<id> [!..] [title] {context}<extension>", one without a blank and one
\* whose blank comes after a dot.
FileNames ==
    { <<"a", " ", "b", ".", "h">>,
      <<"a", " ", "!", "b", "{", "b", "}", ".", "h">>,
      <<"a", ".", "h">>,
      <<"a", ".", "h", " ", "b">> }
ScreenCandidates ==
    { [segments |-> <<None, name>>, on_disk |-> d] : name \in FileNames, d \in DiskEntries }
CandidateLists == SeqsUpTo(ScreenCandidates, MaxScreened)

\* results = self.screen(candidates)
Screen ==
    /\ screened = <<>>
    /\ screened' = screen(candidates)
    /\ UNCHANGED candidates
    /\ UNCHANGED notScreener

NextScreener == Screen

(***************************************************************************)
(* Collection: the pipeline of one file.  The components are the ones the  *)
(* collection was given; what each of them does with a file is part of     *)
(* the file's description.                                                 *)
(***************************************************************************)
MaxIngested == 3         \* longest file list of an ingest call

INGEST == "ingest"
INGEST_FILE == "ingest_file"
INGEST_FILES == "ingest_files"

\* What the components do with a file:
\*   matching   c.globber.match(file_location): "True", "False" or "Exception"
\*   screening  c.screener.screen([file_location])[0]: "Exception", or a result
\*              that is REJECTED, APPROVED with a file_stamp, or APPROVED with
\*              file_stamp None ("APPROVED-unstamped")
\*   indexing   c.indexer.index(file_location, file_stamp): "Exception" or "ok"
\*   document   the IndexedDocument the indexer returns

IngestFile(matching, screening, indexing, document) ==
    [matching |-> matching, screening |-> screening, indexing |-> indexing,
     document |-> document]

StoredDocument == [file_id |-> "file-1", title |-> <<"v1">>,
                   text |-> <<"old", "content">>, file_uri |-> "file:///tmp/x.txt"]
UpdatedDocument == [file_id |-> "file-1", title |-> <<"v2">>,
                    text |-> <<"new", "searchable", "content">>,
                    file_uri |-> "file:///tmp/x.txt"]
NewDocument == [file_id |-> "file-2", title |-> <<"v1">>,
                text |-> <<"old", "content">>, file_uri |-> "file:///tmp/x.txt"]
BrokenDocument == [file_id |-> "file-2", title |-> <<"v1">>,
                   text |-> <<"old", "content">>, file_uri |-> Null]

\* The files of a call: one per way through the pipeline.
IngestFiles ==
    { IngestFile("False", APPROVED, "ok", NewDocument),
      IngestFile("Exception", APPROVED, "ok", NewDocument),
      IngestFile("True", "Exception", "ok", NewDocument),
      IngestFile("True", REJECTED, "ok", NewDocument),
      IngestFile("True", "APPROVED-unstamped", "ok", NewDocument),
      IngestFile("True", APPROVED, "Exception", NewDocument),
      IngestFile("True", APPROVED, "ok", BrokenDocument),
      IngestFile("True", APPROVED, "ok", UpdatedDocument),
      IngestFile("True", APPROVED, "ok", NewDocument) }

IngestCall(method, dry_run, file_list) ==
    [method |-> method, dry_run |-> dry_run, files |-> file_list]
NoIngest == IngestCall("none", FALSE, <<>>)
IngestCalls ==
    { IngestCall(m, d, l) : m \in {INGEST, INGEST_FILES}, d \in BOOLEAN,
                            l \in SeqsUpTo(IngestFiles, MaxIngested) }
    \cup { IngestCall(INGEST_FILE, d, <<f>>) : d \in BOOLEAN, f \in IngestFiles }

\* the store before the call: one row, upserted earlier
StoredRow == WithId(to_files_db_record(StoredDocument, 0), 1)
StoredFiles == {StoredRow}
StoredFts == files_ai(EmptyBag, StoredRow)

\* `if dry_run:`
IsDryRun_never(dry_run) == FALSE

IsDryRun(dry_run) == dry_run

\* ingest() goes through what glob() returned and asks no match(); the other
\* two ask c.globber.match(file_location) first
AsksMatch(method) == method /= INGEST

\* the component calls of one file up to, and without, the upsert, and
\* whether the pipeline gets to the upsert
CallsBeforeUpsert(method, file, i) ==
    LET match == IF AsksMatch(method) THEN << <<"match", i, file.matching>> >> ELSE <<>>
        screen_call == << <<"screen", i, file.screening>> >>
        index_call == << <<"index", i, file.indexing>> >>
    IN IF AsksMatch(method) /\ file.matching /= "True"
       THEN [calls |-> match, upserts |-> FALSE]
       ELSE IF file.screening /= APPROVED
       THEN [calls |-> match \o screen_call, upserts |-> FALSE]
       ELSE [calls |-> match \o screen_call \o index_call,
             upserts |-> file.indexing = "ok"]

\* `count += 1`, after the upsert has returned
CountAfter_countsAttempts(count, outcome) == count + 1

CountAfter(count, outcome) == IF outcome = "ok" THEN count + 1 ELSE count

IngestRunning ==
    /\ ingest_result = <<>>
    /\ ingest_pos <= Len(ingest_call.files)

\* one turn of the loop with dry_run set: ingest() prints and continues, the
\* other two ask the globber and count the matches
IngestDryRunStep ==
    /\ IngestRunning
    /\ IsDryRun(ingest_call.dry_run)
    /\ LET file == ingest_call.files[ingest_pos] IN
       IF AsksMatch(ingest_call.method)
       THEN /\ ingest_log' = Append(ingest_log, <<"match", ingest_pos, file.matching>>)
            /\ ingest_count' = IF file.matching = "True" THEN ingest_count + 1
                               ELSE ingest_count
       ELSE UNCHANGED <<ingest_log, ingest_count>>
    /\ ingest_pos' = ingest_pos + 1
    /\ UNCHANGED <<ingest_call, ingest_result>>
    /\ UNCHANGED notIngest

\* one turn of the loop that ends before the upsert: the file is not
\* matched, not APPROVED, or a component raised, which the except prints
IngestSkipStep ==
    /\ IngestRunning
    /\ ~IsDryRun(ingest_call.dry_run)
    /\ LET before == CallsBeforeUpsert(ingest_call.method,
                                       ingest_call.files[ingest_pos], ingest_pos) IN
       /\ ~before.upserts
       /\ ingest_log' = ingest_log \o before.calls
    /\ ingest_pos' = ingest_pos + 1
    /\ UNCHANGED <<ingest_call, ingest_count, ingest_result>>
    /\ UNCHANGED notIngest

\* one turn of the loop that gets to c.upserter.upsert(indexed_document),
\* outside any transaction scope
IngestUpsertStep ==
    /\ IngestRunning
    /\ ~IsDryRun(ingest_call.dry_run)
    /\ LET file == ingest_call.files[ingest_pos]
           before == CallsBeforeUpsert(ingest_call.method, file, ingest_pos)
           rec == to_files_db_record(file.document, now + 1)
           outcome == IF connection = Null THEN "RuntimeError"
                      ELSE IF ViolatesNotNull(rec) THEN "IntegrityError"
                      ELSE "ok"
       IN /\ before.upserts
          /\ ingest_log' = ingest_log \o before.calls
                               \o << <<"upsert", ingest_pos, outcome>> >>
          /\ ingest_count' = CountAfter(ingest_count, outcome)
          /\ IF outcome = "RuntimeError"
             THEN UNCHANGED <<now, sqlite_txn, files, files_fts, db_files, db_files_fts,
                              hist, db_hist>>
             ELSE IF outcome = "IntegrityError"
             THEN /\ now' = now + 1
                  /\ sqlite_txn' = TRUE
                  /\ UNCHANGED <<files, files_fts, db_files, db_files_fts, hist, db_hist>>
             ELSE /\ now' = now + 1
                  /\ files' = UpsertFiles(files, rec)
                  /\ files_fts' = UpsertFts(files, files_fts, rec)
                  /\ hist' = Record(hist, rec)
                  /\ db_files' = files'
                  /\ db_files_fts' = files_fts'
                  /\ db_hist' = hist'
                  /\ sqlite_txn' = FALSE
          /\ last' = Last("upsert", outcome, file.document.file_id)
    /\ ingest_pos' = ingest_pos + 1
    /\ UNCHANGED <<ingest_call, ingest_result>>
    /\ UNCHANGED <<connection, in_transaction, scope, scope_start, scope_ids, closes>>
    /\ UNCHANGED <<matcherVars, locVars, fsVars, queryVars, searchVars, resolverVars, uriVars, walkerVars, capabilityVars, readerVars,
                   screenerVars>>

\* `return count`
IngestReturn ==
    /\ ingest_result = <<>>
    /\ ingest_pos > Len(ingest_call.files)
    /\ ingest_result' = <<"returned", ingest_count>>
    /\ UNCHANGED <<ingest_call, ingest_pos, ingest_count, ingest_log>>
    /\ UNCHANGED notIngest

NextIngest ==
    \/ IngestDryRunStep
    \/ IngestSkipStep
    \/ IngestUpsertStep
    \/ IngestReturn

(***************************************************************************)
(* FileLocation: reading .uri and parsing it back                          *)
(***************************************************************************)
MaxUriSegments == 2      \* longest base_segments and sub_segments of a uri location

UriAuthorityValues == {None, <<>>, <<"h">>}
UriSegmentValues == {None, <<>>, <<"a">>, <<"/">>, <<"%">>, <<"a", " ", "d">>}

\* the FileLocation objects the validator accepts
UriLocations ==
    {FileLocation(FileScheme, au, base, sub) :
        au \in UriAuthorityValues,
        base \in {s \in SeqsUpTo(UriSegmentValues, MaxUriSegments) : validate_path_segments(s)},
        sub \in {s \in SeqsUpTo(UriSegmentValues, MaxUriSegments) : validate_path_segments(s)}}

NoLocation == FileLocation(<<>>, None, <<>>, <<>>)

\* loc.uri
ReadUri ==
    /\ uri_text = <<>>
    /\ uri_text' = Uri(uri_loc)
    /\ UNCHANGED <<uri_loc, uri_back>>
    /\ UNCHANGED notUri

\* FileLocation.from_uri(loc.uri)
FromUri ==
    /\ uri_text /= <<>>
    /\ uri_text[1] = "ok"
    /\ uri_back = <<>>
    /\ uri_back' = <<from_uri(uri_text[2])>>
    /\ UNCHANGED <<uri_loc, uri_text>>
    /\ UNCHANGED notUri

NextUri == ReadUri \/ FromUri

(***************************************************************************)
(* Walker.walk over a nested configuration                                 *)
(***************************************************************************)
MaxNest == 2             \* deepest nesting of the configurations walked
MaxWidth == 2            \* most children of one dict, list or tuple

\* A node is <<"leaf", value>> (the value "1" stands for the int 1, "k1"
\* and "k2" for the strings that are the keys of a dict) or
\* <<kind, child, ...>> for kind "dict", "list" or "tuple"; the i-th child
\* of a dict is the value under its i-th key.
IntLeaf == <<"leaf", "1">>
DictKeys == <<"k1", "k2", "k3">>
DictKey(i) == <<"leaf", DictKeys[i]>>
IndexKey(i) == <<"index", i - 1>>
ContainerKinds == {"dict", "list", "tuple"}

Children(node) == Tail(node)

RECURSIVE Trees(_)
Trees(n) ==
    IF n = 0 THEN {IntLeaf}
    ELSE {IntLeaf} \cup
         {<<kind>> \o children : kind \in ContainerKinds,
                                 children \in SeqsUpTo(Trees(n - 1), MaxWidth)}

\* policy.is_leaf(node): the handlers of str and of None, int and float say
\* True, those of dict, list and tuple False
is_leaf(node) == node[1] = "leaf"

\* policy.iter_children(node): iter(node.items()) of a dict and
\* iter(enumerate(node)) of a tuple yield pairs, iter(node) of a list yields
\* its elements
iter_children(node) ==
    [i \in 1..Len(Children(node)) |->
        IF node[1] = "dict" THEN <<"pair", DictKey(i), Children(node)[i]>>
        ELSE IF node[1] = "tuple" THEN <<"pair", IndexKey(i), Children(node)[i]>>
        ELSE Children(node)[i]]

\* `child_key, child_value = next(frame.children_iter)`: <<"ok", key, value>>,
\* or the exception of unpacking what is not a pair
Unpack(item) ==
    IF item[1] = "pair" THEN <<"ok", item[2], item[3]>>
    ELSE IF is_leaf(item) THEN <<"TypeError">>
    ELSE IF Len(Children(item)) /= 2 THEN <<"ValueError">>
    ELSE IF item[1] = "dict" THEN <<"ok", DictKey(1), DictKey(2)>>
    ELSE <<"ok", Children(item)[1], Children(item)[2]>>

\* a key a dict accepts: not a list, not a dict, no tuple holding one
RECURSIVE Hashable(_)
Hashable(key) ==
    IF key[1] \in {"list", "dict"} THEN FALSE
    ELSE IF key[1] = "tuple" THEN \A i \in 1..Len(Children(key)) : Hashable(Children(key)[i])
    ELSE TRUE

\* storage[key] = value, storage being the sequence of the dict's items
Store(storage, key, value) ==
    IF \E i \in 1..Len(storage) : storage[i][1] = key
    THEN [i \in 1..Len(storage) |-> IF storage[i][1] = key THEN <<key, value>> ELSE storage[i]]
    ELSE Append(storage, <<key, value>>)

\* policy.rebuild(node, resolved_children.values()): <<>> when the assertion
\* on the number of children fails, else <<the node rebuilt>>
rebuild(node, resolved_children) ==
    IF Len(Children(node)) /= Len(resolved_children) THEN <<>>
    ELSE <<(<<node[1]>> \o [i \in 1..Len(resolved_children) |-> resolved_children[i][2]])>>

Frame(key, node, depth) ==
    [key |-> key, node |-> node, depth |-> depth, children_iter |-> 0,
     resolved_children |-> <<>>]

WalkArgs == [base: Trees(MaxNest), max_depth: 0..(MaxNest - 1)]
NoWalkArgs == [base |-> IntLeaf, max_depth |-> 0]

Top == stack[Len(stack)]
Popped == SubSeq(stack, 1, Len(stack) - 1)
Walking == walk_result = <<>> /\ stack /= <<>>

\* `stack.pop()` and `storage[frame.key] = value`
PopAndStore(value) ==
    IF ~Hashable(Top.key)
    THEN /\ walk_result' = <<"raised", "TypeError">>
         /\ stack' = Popped
         /\ UNCHANGED result_storage
    ELSE /\ UNCHANGED walk_result
         /\ IF Popped = <<>>
            THEN /\ result_storage' = Store(result_storage, Top.key, value)
                 /\ stack' = Popped
            ELSE /\ stack' = [Popped EXCEPT ![Len(Popped)].resolved_children =
                                                Store(@, Top.key, value)]
                 /\ UNCHANGED result_storage

\* `if frame.depth > self.max_depth: raise ConfigResolutionError`
WalkTooDeep ==
    /\ Walking
    /\ Top.depth > walk_args.max_depth
    /\ walk_result' = <<"raised", "ConfigResolutionError">>
    /\ UNCHANGED <<walk_args, stack, result_storage>>
    /\ UNCHANGED notWalker

\* the leaf branch of the loop
WalkLeaf ==
    /\ Walking
    /\ Top.depth <= walk_args.max_depth
    /\ is_leaf(Top.node)
    /\ PopAndStore(Top.node)
    /\ UNCHANGED walk_args
    /\ UNCHANGED notWalker

\* next(frame.children_iter) yields a child: a frame is pushed for it, or
\* the unpacking raises
WalkChild ==
    /\ Walking
    /\ Top.depth <= walk_args.max_depth
    /\ ~is_leaf(Top.node)
    /\ Top.children_iter < Len(Children(Top.node))
    /\ LET item == iter_children(Top.node)[Top.children_iter + 1] IN
       IF Unpack(item)[1] /= "ok"
       THEN /\ walk_result' = <<"raised", Unpack(item)[1]>>
            /\ stack' = [stack EXCEPT ![Len(stack)].children_iter = @ + 1]
       ELSE /\ stack' = Append([stack EXCEPT ![Len(stack)].children_iter = @ + 1],
                               Frame(Unpack(item)[2], Unpack(item)[3], Top.depth + 1))
            /\ UNCHANGED walk_result
    /\ UNCHANGED <<walk_args, result_storage>>
    /\ UNCHANGED notWalker

\* StopIteration: the node is rebuilt from its resolved children
WalkRebuild ==
    /\ Walking
    /\ Top.depth <= walk_args.max_depth
    /\ ~is_leaf(Top.node)
    /\ Top.children_iter >= Len(Children(Top.node))
    /\ IF rebuild(Top.node, Top.resolved_children) = <<>>
       THEN /\ walk_result' = <<"raised", "AssertionError">>
            /\ UNCHANGED <<stack, result_storage>>
       ELSE PopAndStore(rebuild(Top.node, Top.resolved_children)[1])
    /\ UNCHANGED walk_args
    /\ UNCHANGED notWalker

\* `return result_storage[None]`
WalkReturn ==
    /\ walk_result = <<>>
    /\ stack = <<>>
    /\ walk_result' = <<"returned", result_storage[1][2]>>
    /\ UNCHANGED <<walk_args, stack, result_storage>>
    /\ UNCHANGED notWalker

NextWalker == WalkTooDeep \/ WalkLeaf \/ WalkChild \/ WalkRebuild \/ WalkReturn

(***************************************************************************)
(* IngestCapability.ingest_collection and ingest_collections               *)
(***************************************************************************)
MaxLocations == 2        \* longest list given to ingest_collections
MaxCollected == 2        \* most documents one collection.ingest() counts

\* runtime.collections, by their base locations, and the locations asked for
CollectionLocations ==
    <<FileLocation("file", "", <<>>, <<None, SegA>>),
      FileLocation("file", "", <<>>, <<None, SegB>>)>>
RequestedLocations ==
    {CollectionLocations[1], CollectionLocations[2],
     FileLocation("file", "", <<>>, <<None, SegA, SegB>>),
     FileLocation("file", "", <<>>, <<None, SegEmpty>>)}

CapabilityCalls ==
    {[method |-> m, locations |-> l, dry_run |-> d, ingest_returns |-> r,
      ingest_file_returns |-> f] :
        m \in {"ingest_collection", "ingest_collections"},
        l \in SeqsUpTo(RequestedLocations, MaxLocations) \ {<<>>},
        d \in BOOLEAN,
        r \in [1..Len(CollectionLocations) -> 0..MaxCollected],
        f \in {0, 1}}
NoCapabilityCall ==
    [method |-> "none", locations |-> <<>>, dry_run |-> TRUE,
     ingest_returns |-> [i \in 1..Len(CollectionLocations) |-> 0], ingest_file_returns |-> 0]

\* ingest_collection(collection_location, dry_run): the calls it makes on
\* collections and the count it returns
CapabilityIngestCollection(call, collection_location) ==
    LET index == find_match_index(CollectionLocations, collection_location) IN
    IF index /= 0
    THEN [calls |-> <<<<"ingest", index, call.dry_run>>>>, count |-> call.ingest_returns[index]]
    ELSE [calls |-> <<>>, count |-> 0]

\* ingest_file(file_location, dry_run)
CapabilityIngestFile(call, file_location) ==
    LET index == find_match_index(CollectionLocations, file_location) IN
    IF index /= 0
    THEN [calls |-> <<<<"ingest_file", index, file_location, call.dry_run>>>>,
          count |-> call.ingest_file_returns]
    ELSE [calls |-> <<>>, count |-> 0]

\* one call of ingest_collection
IngestCollection ==
    /\ cap_result = <<>>
    /\ cap_call.method = "ingest_collection"
    /\ cap_log' = CapabilityIngestCollection(cap_call, cap_call.locations[1]).calls
    /\ cap_count' = CapabilityIngestCollection(cap_call, cap_call.locations[1]).count
    /\ cap_result' = <<"returned", cap_count'>>
    /\ UNCHANGED <<cap_call, cap_pos>>
    /\ UNCHANGED notCapability

\* ingest_collections: one turn of its loop,
\* `count += self.ingest_file(file_location=collection_location, dry_run=dry_run)`
IngestCollectionsStep ==
    /\ cap_result = <<>>
    /\ cap_call.method = "ingest_collections"
    /\ cap_pos <= Len(cap_call.locations)
    /\ cap_log' = cap_log \o CapabilityIngestFile(cap_call, cap_call.locations[cap_pos]).calls
    /\ cap_count' = cap_count + CapabilityIngestFile(cap_call, cap_call.locations[cap_pos]).count
    /\ cap_pos' = cap_pos + 1
    /\ UNCHANGED <<cap_call, cap_result>>
    /\ UNCHANGED notCapability

\* ingest_collections: `return count`
IngestCollectionsReturn ==
    /\ cap_result = <<>>
    /\ cap_call.method = "ingest_collections"
    /\ cap_pos > Len(cap_call.locations)
    /\ cap_result' = <<"returned", cap_count>>
    /\ UNCHANGED <<cap_call, cap_pos, cap_count, cap_log>>
    /\ UNCHANGED notCapability

NextCapability == IngestCollection \/ IngestCollectionsStep \/ IngestCollectionsReturn

(***************************************************************************)
(* A reader (search, resolve) next to the upserter                         *)
(***************************************************************************)
\* the documents the writer upserts while a reader runs
WriterDocuments == {doc \in Documents : doc.file_uri /= Null /\ doc.title = <<"v2">>}

\* requests: search for a word, resolve a file_id
ReaderRequests == {<<"search", "searchable">>, <<"resolve", "file-1">>}

\* sqlite3.connect(db_path) of the searcher and the resolver: the connection
\* reads what is committed, not what the upserter's connection has written
\* and not committed
ConnectionView_dirty(committed, uncommitted) == uncommitted

ConnectionView(committed, uncommitted) == committed

\* the file_ids the statement of the request selects from the tables
ReadRows(request, tables) ==
    IF request[1] = "search" THEN fts_search(tables[1], tables[2], request[2])
    ELSE {r.file_id : r \in {x \in tables[1] : x.file_id = request[2]}}

NoReader ==
    [pc |-> "idle", request |-> <<"search", "searchable">>, began |-> <<>>,
     executed |-> <<>>, writer_view |-> <<>>, snapshot |-> <<>>, hits |-> {}]
NewReader(request) == [NoReader EXCEPT !.pc = "new", !.request = request]

\* search() and resolve() up to the connection: `self._connect()`
ReadConnect ==
    /\ reader.pc = "new"
    /\ reader' = [reader EXCEPT !.pc = "connected", !.began = <<db_files, db_files_fts>>]
    /\ UNCHANGED notReader

\* conn.execute(...): the statement reads the database as committed now;
\* under journal_mode=WAL it does not wait for the writer
ReadExecute ==
    /\ reader.pc = "connected"
    /\ reader' = [reader EXCEPT !.pc = "executed",
                                !.executed = <<db_files, db_files_fts>>,
                                !.writer_view = <<files, files_fts>>,
                                !.snapshot = <<ConnectionView(db_files, files),
                                               ConnectionView(db_files_fts, files_fts)>>]
    /\ UNCHANGED notReader

\* cur.fetchall() / fetchone() and the result returned
ReadReturn ==
    /\ reader.pc = "executed"
    /\ reader' = [reader EXCEPT !.pc = "returned",
                                !.hits = ReadRows(reader.request, reader.snapshot)]
    /\ UNCHANGED notReader

NextReader ==
    \/ ReadConnect \/ ReadExecute \/ ReadReturn
    \/ \E doc \in WriterDocuments : Upsert(doc)
    \/ EnterTransaction
    \/ ExitScope
    \/ ExitScopeRaise

(***************************************************************************)
(* Specifications, one per component                                       *)
(***************************************************************************)
\* Sqlite3Upserter(config): open connection, schema created, empty tables;
\* no other component has a call pending
InitStore ==
    /\ connection = "open"
    /\ in_transaction = FALSE
    /\ sqlite_txn = FALSE
    /\ files = {}
    /\ files_fts = EmptyBag
    /\ db_files = {}
    /\ db_files_fts = EmptyBag
    /\ scope = "none"
    /\ now = 0
    /\ last = Last("init", "ok", NoArg)
    /\ hist = NoHist
    /\ db_hist = NoHist
    /\ scope_start = <<{}, EmptyBag>>
    /\ scope_ids = {}
    /\ closes = 0
    /\ file_locations = <<>>
    /\ m_target = <<>>
    /\ m_called = TRUE
    /\ m_index = 0
    /\ m_match = <<>>
    /\ loc_args = NoLocationArgs
    /\ loc = <<>>
    /\ loc_error = "ok"
    /\ fs_args = NoFsArgs
    /\ fs_loc = <<>>
    /\ fs_error = "ok"
    /\ fs_out = <<>>
    /\ query = <<>>
    /\ query_terms = <<>>
    /\ tokens = <<>>
    /\ compiled = << <<>> >>
    /\ searcher_db = {}
    /\ max_limit = 1
    /\ search = [t \in Threads |-> NoCall]
    /\ cursors = [c \in Connections |-> <<>>]
    /\ resolver_db = {}
    /\ resolve_uri = <<>>
    /\ resolved = <<"idle">>
    /\ candidates = <<>>
    /\ screened = <<"idle">>
    /\ ingest_call = NoIngest
    /\ ingest_pos = 1
    /\ ingest_count = 0
    /\ ingest_log = <<>>
    /\ ingest_result = <<"idle">>
    /\ uri_loc = NoLocation
    /\ uri_text = <<"idle">>
    /\ uri_back = <<>>
    /\ walk_args = NoWalkArgs
    /\ stack = <<>>
    /\ result_storage = <<>>
    /\ walk_result = <<"idle">>
    /\ cap_call = NoCapabilityCall
    /\ cap_pos = 1
    /\ cap_count = 0
    /\ cap_log = <<>>
    /\ cap_result = <<"idle">>
    /\ reader = NoReader

SpecStore == InitStore /\ [][NextStore]_vars

\* the arguments of one FileLocation construction; the upserter is closed
\* and unused
InitLocation ==
    /\ connection = Null
    /\ in_transaction = FALSE
    /\ sqlite_txn = FALSE
    /\ files = {}
    /\ files_fts = EmptyBag
    /\ db_files = {}
    /\ db_files_fts = EmptyBag
    /\ scope = "none"
    /\ now = 0
    /\ last = Last("init", "ok", NoArg)
    /\ hist = NoHist
    /\ db_hist = NoHist
    /\ scope_start = <<{}, EmptyBag>>
    /\ scope_ids = {}
    /\ closes = 0
    /\ file_locations = <<>>
    /\ m_target = <<>>
    /\ m_called = TRUE
    /\ m_index = 0
    /\ m_match = <<>>
    /\ loc_args \in ConstructorArgs \cup FromSegmentsArgs
    /\ loc = <<>>
    /\ loc_error = "pending"
    /\ fs_args = NoFsArgs
    /\ fs_loc = <<>>
    /\ fs_error = "ok"
    /\ fs_out = <<>>
    /\ query = <<>>
    /\ query_terms = <<>>
    /\ tokens = <<>>
    /\ compiled = << <<>> >>
    /\ searcher_db = {}
    /\ max_limit = 1
    /\ search = [t \in Threads |-> NoCall]
    /\ cursors = [c \in Connections |-> <<>>]
    /\ resolver_db = {}
    /\ resolve_uri = <<>>
    /\ resolved = <<"idle">>
    /\ candidates = <<>>
    /\ screened = <<"idle">>
    /\ ingest_call = NoIngest
    /\ ingest_pos = 1
    /\ ingest_count = 0
    /\ ingest_log = <<>>
    /\ ingest_result = <<"idle">>
    /\ uri_loc = NoLocation
    /\ uri_text = <<"idle">>
    /\ uri_back = <<>>
    /\ walk_args = NoWalkArgs
    /\ stack = <<>>
    /\ result_storage = <<>>
    /\ walk_result = <<"idle">>
    /\ cap_call = NoCapabilityCall
    /\ cap_pos = 1
    /\ cap_count = 0
    /\ cap_log = <<>>
    /\ cap_result = <<"idle">>
    /\ reader = NoReader

SpecLocation == InitLocation /\ [][NextLocation]_vars

\* SimpleFileLocationMatcher(file_locations) and the target of one
\* find_match call; the upserter is closed and unused
InitMatcher ==
    /\ connection = Null
    /\ in_transaction = FALSE
    /\ sqlite_txn = FALSE
    /\ files = {}
    /\ files_fts = EmptyBag
    /\ db_files = {}
    /\ db_files_fts = EmptyBag
    /\ scope = "none"
    /\ now = 0
    /\ last = Last("init", "ok", NoArg)
    /\ hist = NoHist
    /\ db_hist = NoHist
    /\ scope_start = <<{}, EmptyBag>>
    /\ scope_ids = {}
    /\ closes = 0
    /\ file_locations \in SeqsUpTo(CandidateLocations, MaxCandidates)
    /\ m_target \in {<<t>> : t \in TargetLocations}
    /\ m_called = FALSE
    /\ m_index = 0
    /\ m_match = <<>>
    /\ loc_args = NoLocationArgs
    /\ loc = <<>>
    /\ loc_error = "ok"
    /\ fs_args = NoFsArgs
    /\ fs_loc = <<>>
    /\ fs_error = "ok"
    /\ fs_out = <<>>
    /\ query = <<>>
    /\ query_terms = <<>>
    /\ tokens = <<>>
    /\ compiled = << <<>> >>
    /\ searcher_db = {}
    /\ max_limit = 1
    /\ search = [t \in Threads |-> NoCall]
    /\ cursors = [c \in Connections |-> <<>>]
    /\ resolver_db = {}
    /\ resolve_uri = <<>>
    /\ resolved = <<"idle">>
    /\ candidates = <<>>
    /\ screened = <<"idle">>
    /\ ingest_call = NoIngest
    /\ ingest_pos = 1
    /\ ingest_count = 0
    /\ ingest_log = <<>>
    /\ ingest_result = <<"idle">>
    /\ uri_loc = NoLocation
    /\ uri_text = <<"idle">>
    /\ uri_back = <<>>
    /\ walk_args = NoWalkArgs
    /\ stack = <<>>
    /\ result_storage = <<>>
    /\ walk_result = <<"idle">>
    /\ cap_call = NoCapabilityCall
    /\ cap_pos = 1
    /\ cap_count = 0
    /\ cap_log = <<>>
    /\ cap_result = <<"idle">>
    /\ reader = NoReader

SpecMatcher == InitMatcher /\ [][NextMatcher]_vars

\* the arguments of one from_filesystem_path call; the upserter is closed
\* and unused
InitFs ==
    /\ connection = Null
    /\ in_transaction = FALSE
    /\ sqlite_txn = FALSE
    /\ files = {}
    /\ files_fts = EmptyBag
    /\ db_files = {}
    /\ db_files_fts = EmptyBag
    /\ scope = "none"
    /\ now = 0
    /\ last = Last("init", "ok", NoArg)
    /\ hist = NoHist
    /\ db_hist = NoHist
    /\ scope_start = <<{}, EmptyBag>>
    /\ scope_ids = {}
    /\ closes = 0
    /\ file_locations = <<>>
    /\ m_target = <<>>
    /\ m_called = TRUE
    /\ m_index = 0
    /\ m_match = <<>>
    /\ loc_args = NoLocationArgs
    /\ loc = <<>>
    /\ loc_error = "ok"
    /\ fs_args \in FsArgs
    /\ fs_loc = <<>>
    /\ fs_error = "pending"
    /\ fs_out = <<>>
    /\ query = <<>>
    /\ query_terms = <<>>
    /\ tokens = <<>>
    /\ compiled = << <<>> >>
    /\ searcher_db = {}
    /\ max_limit = 1
    /\ search = [t \in Threads |-> NoCall]
    /\ cursors = [c \in Connections |-> <<>>]
    /\ resolver_db = {}
    /\ resolve_uri = <<>>
    /\ resolved = <<"idle">>
    /\ candidates = <<>>
    /\ screened = <<"idle">>
    /\ ingest_call = NoIngest
    /\ ingest_pos = 1
    /\ ingest_count = 0
    /\ ingest_log = <<>>
    /\ ingest_result = <<"idle">>
    /\ uri_loc = NoLocation
    /\ uri_text = <<"idle">>
    /\ uri_back = <<>>
    /\ walk_args = NoWalkArgs
    /\ stack = <<>>
    /\ result_storage = <<>>
    /\ walk_result = <<"idle">>
    /\ cap_call = NoCapabilityCall
    /\ cap_pos = 1
    /\ cap_count = 0
    /\ cap_log = <<>>
    /\ cap_result = <<"idle">>
    /\ reader = NoReader

SpecFs == InitFs /\ [][NextFs]_vars

\* the free text of one wrap_text_search_query call
InitQuery ==
    \E query_case \in QueryCases :
    /\ connection = Null
    /\ in_transaction = FALSE
    /\ sqlite_txn = FALSE
    /\ files = {}
    /\ files_fts = EmptyBag
    /\ db_files = {}
    /\ db_files_fts = EmptyBag
    /\ scope = "none"
    /\ now = 0
    /\ last = Last("init", "ok", NoArg)
    /\ hist = NoHist
    /\ db_hist = NoHist
    /\ scope_start = <<{}, EmptyBag>>
    /\ scope_ids = {}
    /\ closes = 0
    /\ file_locations = <<>>
    /\ m_target = <<>>
    /\ m_called = TRUE
    /\ m_index = 0
    /\ m_match = <<>>
    /\ loc_args = NoLocationArgs
    /\ loc = <<>>
    /\ loc_error = "ok"
    /\ fs_args = NoFsArgs
    /\ fs_loc = <<>>
    /\ fs_error = "ok"
    /\ fs_out = <<>>
    /\ query = query_case.query
    /\ query_terms = query_case.terms
    /\ tokens = <<>>
    /\ compiled = <<>>
    /\ searcher_db = {}
    /\ max_limit = 1
    /\ search = [t \in Threads |-> NoCall]
    /\ cursors = [c \in Connections |-> <<>>]
    /\ resolver_db = {}
    /\ resolve_uri = <<>>
    /\ resolved = <<"idle">>
    /\ candidates = <<>>
    /\ screened = <<"idle">>
    /\ ingest_call = NoIngest
    /\ ingest_pos = 1
    /\ ingest_count = 0
    /\ ingest_log = <<>>
    /\ ingest_result = <<"idle">>
    /\ uri_loc = NoLocation
    /\ uri_text = <<"idle">>
    /\ uri_back = <<>>
    /\ walk_args = NoWalkArgs
    /\ stack = <<>>
    /\ result_storage = <<>>
    /\ walk_result = <<"idle">>
    /\ cap_call = NoCapabilityCall
    /\ cap_pos = 1
    /\ cap_count = 0
    /\ cap_log = <<>>
    /\ cap_result = <<"idle">>
    /\ reader = NoReader

SpecQuery == InitQuery /\ [][NextQuery]_vars

\* one Sqlite3Searcher over a database of three rows, and one search() call
\* per thread
InitSearch ==
    \E first \in SearchArgumentValues, second \in SecondCallValues :
    /\ connection = Null
    /\ in_transaction = FALSE
    /\ sqlite_txn = FALSE
    /\ files = {}
    /\ files_fts = EmptyBag
    /\ db_files = {}
    /\ db_files_fts = EmptyBag
    /\ scope = "none"
    /\ now = 0
    /\ last = Last("init", "ok", NoArg)
    /\ hist = NoHist
    /\ db_hist = NoHist
    /\ scope_start = <<{}, EmptyBag>>
    /\ scope_ids = {}
    /\ closes = 0
    /\ file_locations = <<>>
    /\ m_target = <<>>
    /\ m_called = TRUE
    /\ m_index = 0
    /\ m_match = <<>>
    /\ loc_args = NoLocationArgs
    /\ loc = <<>>
    /\ loc_error = "ok"
    /\ fs_args = NoFsArgs
    /\ fs_loc = <<>>
    /\ fs_error = "ok"
    /\ fs_out = <<>>
    /\ query = <<>>
    /\ query_terms = <<>>
    /\ tokens = <<>>
    /\ compiled = << <<>> >>
    /\ searcher_db = SearcherRows
    /\ max_limit \in ConfiguredLimits
    /\ search = [t \in Threads |-> IF t = "t1" THEN NewCall(first) ELSE NewCall(second)]
    /\ cursors = [c \in Connections |-> <<>>]
    /\ resolver_db = {}
    /\ resolve_uri = <<>>
    /\ resolved = <<"idle">>
    /\ candidates = <<>>
    /\ screened = <<"idle">>
    /\ ingest_call = NoIngest
    /\ ingest_pos = 1
    /\ ingest_count = 0
    /\ ingest_log = <<>>
    /\ ingest_result = <<"idle">>
    /\ uri_loc = NoLocation
    /\ uri_text = <<"idle">>
    /\ uri_back = <<>>
    /\ walk_args = NoWalkArgs
    /\ stack = <<>>
    /\ result_storage = <<>>
    /\ walk_result = <<"idle">>
    /\ cap_call = NoCapabilityCall
    /\ cap_pos = 1
    /\ cap_count = 0
    /\ cap_log = <<>>
    /\ cap_result = <<"idle">>
    /\ reader = NoReader

SpecSearch == InitSearch /\ [][NextSearch]_vars

\* one UriResolver over a database of two rows or none, and the uri of one
\* resolve() call
InitResolver ==
    /\ connection = Null
    /\ in_transaction = FALSE
    /\ sqlite_txn = FALSE
    /\ files = {}
    /\ files_fts = EmptyBag
    /\ db_files = {}
    /\ db_files_fts = EmptyBag
    /\ scope = "none"
    /\ now = 0
    /\ last = Last("init", "ok", NoArg)
    /\ hist = NoHist
    /\ db_hist = NoHist
    /\ scope_start = <<{}, EmptyBag>>
    /\ scope_ids = {}
    /\ closes = 0
    /\ file_locations = <<>>
    /\ m_target = <<>>
    /\ m_called = TRUE
    /\ m_index = 0
    /\ m_match = <<>>
    /\ loc_args = NoLocationArgs
    /\ loc = <<>>
    /\ loc_error = "ok"
    /\ fs_args = NoFsArgs
    /\ fs_loc = <<>>
    /\ fs_error = "ok"
    /\ fs_out = <<>>
    /\ query = <<>>
    /\ query_terms = <<>>
    /\ tokens = <<>>
    /\ compiled = << <<>> >>
    /\ searcher_db = {}
    /\ max_limit = 1
    /\ search = [t \in Threads |-> NoCall]
    /\ cursors = [c \in Connections |-> <<>>]
    /\ resolver_db \in {ResolverRows, {}}
    /\ resolve_uri \in Uris
    /\ resolved = <<>>
    /\ candidates = <<>>
    /\ screened = <<"idle">>
    /\ ingest_call = NoIngest
    /\ ingest_pos = 1
    /\ ingest_count = 0
    /\ ingest_log = <<>>
    /\ ingest_result = <<"idle">>
    /\ uri_loc = NoLocation
    /\ uri_text = <<"idle">>
    /\ uri_back = <<>>
    /\ walk_args = NoWalkArgs
    /\ stack = <<>>
    /\ result_storage = <<>>
    /\ walk_result = <<"idle">>
    /\ cap_call = NoCapabilityCall
    /\ cap_pos = 1
    /\ cap_count = 0
    /\ cap_log = <<>>
    /\ cap_result = <<"idle">>
    /\ reader = NoReader

SpecResolver == InitResolver /\ [][NextResolver]_vars

\* one SimpleScreener and the candidate list of one screen() call
InitScreener ==
    /\ connection = Null
    /\ in_transaction = FALSE
    /\ sqlite_txn = FALSE
    /\ files = {}
    /\ files_fts = EmptyBag
    /\ db_files = {}
    /\ db_files_fts = EmptyBag
    /\ scope = "none"
    /\ now = 0
    /\ last = Last("init", "ok", NoArg)
    /\ hist = NoHist
    /\ db_hist = NoHist
    /\ scope_start = <<{}, EmptyBag>>
    /\ scope_ids = {}
    /\ closes = 0
    /\ file_locations = <<>>
    /\ m_target = <<>>
    /\ m_called = TRUE
    /\ m_index = 0
    /\ m_match = <<>>
    /\ loc_args = NoLocationArgs
    /\ loc = <<>>
    /\ loc_error = "ok"
    /\ fs_args = NoFsArgs
    /\ fs_loc = <<>>
    /\ fs_error = "ok"
    /\ fs_out = <<>>
    /\ query = <<>>
    /\ query_terms = <<>>
    /\ tokens = <<>>
    /\ compiled = << <<>> >>
    /\ searcher_db = {}
    /\ max_limit = 1
    /\ search = [t \in Threads |-> NoCall]
    /\ cursors = [c \in Connections |-> <<>>]
    /\ resolver_db = {}
    /\ resolve_uri = <<>>
    /\ resolved = <<"idle">>
    /\ candidates \in CandidateLists
    /\ screened = <<>>
    /\ ingest_call = NoIngest
    /\ ingest_pos = 1
    /\ ingest_count = 0
    /\ ingest_log = <<>>
    /\ ingest_result = <<"idle">>
    /\ uri_loc = NoLocation
    /\ uri_text = <<"idle">>
    /\ uri_back = <<>>
    /\ walk_args = NoWalkArgs
    /\ stack = <<>>
    /\ result_storage = <<>>
    /\ walk_result = <<"idle">>
    /\ cap_call = NoCapabilityCall
    /\ cap_pos = 1
    /\ cap_count = 0
    /\ cap_log = <<>>
    /\ cap_result = <<"idle">>
    /\ reader = NoReader

SpecScreener == InitScreener /\ [][NextScreener]_vars

\* one Collection whose upserter is open on a store of one row, and one
\* ingest, ingest_file or ingest_files call
InitIngest ==
    /\ connection = "open"
    /\ in_transaction = FALSE
    /\ sqlite_txn = FALSE
    /\ files = StoredFiles
    /\ files_fts = StoredFts
    /\ db_files = StoredFiles
    /\ db_files_fts = StoredFts
    /\ scope = "none"
    /\ now = 0
    /\ last = Last("init", "ok", NoArg)
    /\ hist = Record(NoHist, to_files_db_record(StoredDocument, 0))
    /\ db_hist = Record(NoHist, to_files_db_record(StoredDocument, 0))
    /\ scope_start = <<{}, EmptyBag>>
    /\ scope_ids = {}
    /\ closes = 0
    /\ file_locations = <<>>
    /\ m_target = <<>>
    /\ m_called = TRUE
    /\ m_index = 0
    /\ m_match = <<>>
    /\ loc_args = NoLocationArgs
    /\ loc = <<>>
    /\ loc_error = "ok"
    /\ fs_args = NoFsArgs
    /\ fs_loc = <<>>
    /\ fs_error = "ok"
    /\ fs_out = <<>>
    /\ query = <<>>
    /\ query_terms = <<>>
    /\ tokens = <<>>
    /\ compiled = << <<>> >>
    /\ searcher_db = {}
    /\ max_limit = 1
    /\ search = [t \in Threads |-> NoCall]
    /\ cursors = [c \in Connections |-> <<>>]
    /\ resolver_db = {}
    /\ resolve_uri = <<>>
    /\ resolved = <<"idle">>
    /\ candidates = <<>>
    /\ screened = <<"idle">>
    /\ ingest_call \in IngestCalls
    /\ ingest_pos = 1
    /\ ingest_count = 0
    /\ ingest_log = <<>>
    /\ ingest_result = <<>>
    /\ uri_loc = NoLocation
    /\ uri_text = <<"idle">>
    /\ uri_back = <<>>
    /\ walk_args = NoWalkArgs
    /\ stack = <<>>
    /\ result_storage = <<>>
    /\ walk_result = <<"idle">>
    /\ cap_call = NoCapabilityCall
    /\ cap_pos = 1
    /\ cap_count = 0
    /\ cap_log = <<>>
    /\ cap_result = <<"idle">>
    /\ reader = NoReader

SpecIngest == InitIngest /\ [][NextIngest]_vars

\* one FileLocation, its uri property and from_uri of that uri
InitUri ==
    /\ connection = Null
    /\ in_transaction = FALSE
    /\ sqlite_txn = FALSE
    /\ files = {}
    /\ files_fts = EmptyBag
    /\ db_files = {}
    /\ db_files_fts = EmptyBag
    /\ scope = "none"
    /\ now = 0
    /\ last = Last("init", "ok", NoArg)
    /\ hist = NoHist
    /\ db_hist = NoHist
    /\ scope_start = <<{}, EmptyBag>>
    /\ scope_ids = {}
    /\ closes = 0
    /\ file_locations = <<>>
    /\ m_target = <<>>
    /\ m_called = TRUE
    /\ m_index = 0
    /\ m_match = <<>>
    /\ loc_args = NoLocationArgs
    /\ loc = <<>>
    /\ loc_error = "ok"
    /\ fs_args = NoFsArgs
    /\ fs_loc = <<>>
    /\ fs_error = "ok"
    /\ fs_out = <<>>
    /\ query = <<>>
    /\ query_terms = <<>>
    /\ tokens = <<>>
    /\ compiled = << <<>> >>
    /\ searcher_db = {}
    /\ max_limit = 1
    /\ search = [t \in Threads |-> NoCall]
    /\ cursors = [c \in Connections |-> <<>>]
    /\ resolver_db = {}
    /\ resolve_uri = <<>>
    /\ resolved = <<"idle">>
    /\ candidates = <<>>
    /\ screened = <<"idle">>
    /\ ingest_call = NoIngest
    /\ ingest_pos = 1
    /\ ingest_count = 0
    /\ ingest_log = <<>>
    /\ ingest_result = <<"idle">>
    /\ uri_loc \in UriLocations
    /\ uri_text = <<>>
    /\ uri_back = <<>>
    /\ walk_args = NoWalkArgs
    /\ stack = <<>>
    /\ result_storage = <<>>
    /\ walk_result = <<"idle">>
    /\ cap_call = NoCapabilityCall
    /\ cap_pos = 1
    /\ cap_count = 0
    /\ cap_log = <<>>
    /\ cap_result = <<"idle">>
    /\ reader = NoReader

SpecUri == InitUri /\ [][NextUri]_vars

\* the arguments of one from_filesystem_path call with a base path
InitFsBase ==
    /\ connection = Null
    /\ in_transaction = FALSE
    /\ sqlite_txn = FALSE
    /\ files = {}
    /\ files_fts = EmptyBag
    /\ db_files = {}
    /\ db_files_fts = EmptyBag
    /\ scope = "none"
    /\ now = 0
    /\ last = Last("init", "ok", NoArg)
    /\ hist = NoHist
    /\ db_hist = NoHist
    /\ scope_start = <<{}, EmptyBag>>
    /\ scope_ids = {}
    /\ closes = 0
    /\ file_locations = <<>>
    /\ m_target = <<>>
    /\ m_called = TRUE
    /\ m_index = 0
    /\ m_match = <<>>
    /\ loc_args = NoLocationArgs
    /\ loc = <<>>
    /\ loc_error = "ok"
    /\ fs_args \in FsBaseArgs
    /\ fs_loc = <<>>
    /\ fs_error = "pending"
    /\ fs_out = <<>>
    /\ query = <<>>
    /\ query_terms = <<>>
    /\ tokens = <<>>
    /\ compiled = << <<>> >>
    /\ searcher_db = {}
    /\ max_limit = 1
    /\ search = [t \in Threads |-> NoCall]
    /\ cursors = [c \in Connections |-> <<>>]
    /\ resolver_db = {}
    /\ resolve_uri = <<>>
    /\ resolved = <<"idle">>
    /\ candidates = <<>>
    /\ screened = <<"idle">>
    /\ ingest_call = NoIngest
    /\ ingest_pos = 1
    /\ ingest_count = 0
    /\ ingest_log = <<>>
    /\ ingest_result = <<"idle">>
    /\ uri_loc = NoLocation
    /\ uri_text = <<"idle">>
    /\ uri_back = <<>>
    /\ walk_args = NoWalkArgs
    /\ stack = <<>>
    /\ result_storage = <<>>
    /\ walk_result = <<"idle">>
    /\ cap_call = NoCapabilityCall
    /\ cap_pos = 1
    /\ cap_count = 0
    /\ cap_log = <<>>
    /\ cap_result = <<"idle">>
    /\ reader = NoReader

SpecFsBase == InitFsBase /\ [][NextFs]_vars

\* one Walker.walk call: the root frame is on the stack
InitWalker ==
    \E args \in WalkArgs :
    /\ connection = Null
    /\ in_transaction = FALSE
    /\ sqlite_txn = FALSE
    /\ files = {}
    /\ files_fts = EmptyBag
    /\ db_files = {}
    /\ db_files_fts = EmptyBag
    /\ scope = "none"
    /\ now = 0
    /\ last = Last("init", "ok", NoArg)
    /\ hist = NoHist
    /\ db_hist = NoHist
    /\ scope_start = <<{}, EmptyBag>>
    /\ scope_ids = {}
    /\ closes = 0
    /\ file_locations = <<>>
    /\ m_target = <<>>
    /\ m_called = TRUE
    /\ m_index = 0
    /\ m_match = <<>>
    /\ loc_args = NoLocationArgs
    /\ loc = <<>>
    /\ loc_error = "ok"
    /\ fs_args = NoFsArgs
    /\ fs_loc = <<>>
    /\ fs_error = "ok"
    /\ fs_out = <<>>
    /\ query = <<>>
    /\ query_terms = <<>>
    /\ tokens = <<>>
    /\ compiled = << <<>> >>
    /\ searcher_db = {}
    /\ max_limit = 1
    /\ search = [t \in Threads |-> NoCall]
    /\ cursors = [c \in Connections |-> <<>>]
    /\ resolver_db = {}
    /\ resolve_uri = <<>>
    /\ resolved = <<"idle">>
    /\ candidates = <<>>
    /\ screened = <<"idle">>
    /\ ingest_call = NoIngest
    /\ ingest_pos = 1
    /\ ingest_count = 0
    /\ ingest_log = <<>>
    /\ ingest_result = <<"idle">>
    /\ uri_loc = NoLocation
    /\ uri_text = <<"idle">>
    /\ uri_back = <<>>
    /\ walk_args = args
    /\ stack = <<Frame(None, args.base, 0)>>
    /\ result_storage = <<>>
    /\ walk_result = <<>>
    /\ cap_call = NoCapabilityCall
    /\ cap_pos = 1
    /\ cap_count = 0
    /\ cap_log = <<>>
    /\ cap_result = <<"idle">>
    /\ reader = NoReader

SpecWalker == InitWalker /\ [][NextWalker]_vars

\* one IngestCapability over two collections, and one ingest_collection or
\* ingest_collections call
InitCapability ==
    /\ connection = Null
    /\ in_transaction = FALSE
    /\ sqlite_txn = FALSE
    /\ files = {}
    /\ files_fts = EmptyBag
    /\ db_files = {}
    /\ db_files_fts = EmptyBag
    /\ scope = "none"
    /\ now = 0
    /\ last = Last("init", "ok", NoArg)
    /\ hist = NoHist
    /\ db_hist = NoHist
    /\ scope_start = <<{}, EmptyBag>>
    /\ scope_ids = {}
    /\ closes = 0
    /\ file_locations = <<>>
    /\ m_target = <<>>
    /\ m_called = TRUE
    /\ m_index = 0
    /\ m_match = <<>>
    /\ loc_args = NoLocationArgs
    /\ loc = <<>>
    /\ loc_error = "ok"
    /\ fs_args = NoFsArgs
    /\ fs_loc = <<>>
    /\ fs_error = "ok"
    /\ fs_out = <<>>
    /\ query = <<>>
    /\ query_terms = <<>>
    /\ tokens = <<>>
    /\ compiled = << <<>> >>
    /\ searcher_db = {}
    /\ max_limit = 1
    /\ search = [t \in Threads |-> NoCall]
    /\ cursors = [c \in Connections |-> <<>>]
    /\ resolver_db = {}
    /\ resolve_uri = <<>>
    /\ resolved = <<"idle">>
    /\ candidates = <<>>
    /\ screened = <<"idle">>
    /\ ingest_call = NoIngest
    /\ ingest_pos = 1
    /\ ingest_count = 0
    /\ ingest_log = <<>>
    /\ ingest_result = <<"idle">>
    /\ uri_loc = NoLocation
    /\ uri_text = <<"idle">>
    /\ uri_back = <<>>
    /\ walk_args = NoWalkArgs
    /\ stack = <<>>
    /\ result_storage = <<>>
    /\ walk_result = <<"idle">>
    /\ cap_call \in CapabilityCalls
    /\ cap_pos = 1
    /\ cap_count = 0
    /\ cap_log = <<>>
    /\ cap_result = <<>>
    /\ reader = NoReader

SpecCapability == InitCapability /\ [][NextCapability]_vars

\* the upserter open on an empty database, and one search or resolve
\* request of another connection
InitReader ==
    /\ connection = "open"
    /\ in_transaction = FALSE
    /\ sqlite_txn = FALSE
    /\ files = {}
    /\ files_fts = EmptyBag
    /\ db_files = {}
    /\ db_files_fts = EmptyBag
    /\ scope = "none"
    /\ now = 0
    /\ last = Last("init", "ok", NoArg)
    /\ hist = NoHist
    /\ db_hist = NoHist
    /\ scope_start = <<{}, EmptyBag>>
    /\ scope_ids = {}
    /\ closes = 0
    /\ file_locations = <<>>
    /\ m_target = <<>>
    /\ m_called = TRUE
    /\ m_index = 0
    /\ m_match = <<>>
    /\ loc_args = NoLocationArgs
    /\ loc = <<>>
    /\ loc_error = "ok"
    /\ fs_args = NoFsArgs
    /\ fs_loc = <<>>
    /\ fs_error = "ok"
    /\ fs_out = <<>>
    /\ query = <<>>
    /\ query_terms = <<>>
    /\ tokens = <<>>
    /\ compiled = << <<>> >>
    /\ searcher_db = {}
    /\ max_limit = 1
    /\ search = [t \in Threads |-> NoCall]
    /\ cursors = [c \in Connections |-> <<>>]
    /\ resolver_db = {}
    /\ resolve_uri = <<>>
    /\ resolved = <<"idle">>
    /\ candidates = <<>>
    /\ screened = <<"idle">>
    /\ ingest_call = NoIngest
    /\ ingest_pos = 1
    /\ ingest_count = 0
    /\ ingest_log = <<>>
    /\ ingest_result = <<"idle">>
    /\ uri_loc = NoLocation
    /\ uri_text = <<"idle">>
    /\ uri_back = <<>>
    /\ walk_args = NoWalkArgs
    /\ stack = <<>>
    /\ result_storage = <<>>
    /\ walk_result = <<"idle">>
    /\ cap_call = NoCapabilityCall
    /\ cap_pos = 1
    /\ cap_count = 0
    /\ cap_log = <<>>
    /\ cap_result = <<"idle">>
    /\ reader \in {NewReader(request) : request \in ReaderRequests}

SpecReader == InitReader /\ [][NextReader]_vars

(***************************************************************************)
(* Properties of the upserter (checked under SpecStore)                    *)
(***************************************************************************)
RowsOf(fs, f) == {r \in fs : r.file_id = f}
TableWords == {"v1", "v2", "old", "new", "searchable", "content"}

\* a table holds, per upserted file_id, one row with the fields of the last
\* upsert and the timestamp of the first
OneRowPerFileId(fs, h) ==
    /\ \A f \in FileIds :
          Cardinality(RowsOf(fs, f)) = (IF h[f] = <<>> THEN 0 ELSE 1)
    /\ \A r \in fs :
          /\ h[r.file_id] /= <<>>
          /\ r.title = h[r.file_id][2].title
          /\ r.text = h[r.file_id][2].text
          /\ r.file_uri = h[r.file_id][2].file_uri
          /\ r.record_updated_datetime = h[r.file_id][2].record_updated_datetime
          /\ r.record_created_datetime = h[r.file_id][1]

\* C1: after any sequence of committed upserts the primary table holds
\* exactly one row per upserted file_id, carrying every field of the most
\* recent upsert (record_updated_datetime included) and the
\* record_created_datetime of the first upsert of that file_id.
C1_IdempotentUpsert == OneRowPerFileId(db_files, db_hist)

C1_Witness ==
    /\ last.op = "upsert" /\ last.result = "ok"
    /\ \E r \in db_files :
          /\ r.file_id = last.arg
          /\ r.record_created_datetime < r.record_updated_datetime
          /\ r.title = <<"v2">>
    /\ Cardinality(db_files) = 2

\* C2: when an exception leaves a transaction() scope the whole scope is
\* rolled back: primary table and full-text index, as committed and as the
\* upserter sees them, are what they were when the scope was entered, and
\* no row or index entry of a file_id first upserted in the scope remains.
C2_RollbackIsAtomic ==
    last.op = "exit_raise" =>
        /\ db_files = scope_start[1]
        /\ db_files_fts = scope_start[2]
        /\ files = scope_start[1]
        /\ files_fts = scope_start[2]
        /\ \A f \in scope_ids :
              RowsOf(scope_start[1], f) = {} =>
                  /\ RowsOf(db_files, f) = {}
                  /\ \A w \in TableWords : f \notin fts_search(db_files, db_files_fts, w)

C2_Witness ==
    /\ last.op = "exit_raise" /\ last.result = "IntegrityError"
    /\ connection = "open"
    /\ Cardinality(scope_ids) = 2
    /\ Cardinality(db_files) = 1

\* the index has exactly the entries of the table's rows, one each
FtsMirrors(fs, fts) ==
    /\ fts = SetToBag({FtsEntry(r) : r \in fs})
    /\ \A w \in TableWords :
          fts_search(fs, fts, w) =
              {r.file_id : r \in {x \in fs : w \in Words(x.title) \cup Words(x.text)}}

\* C3: after any sequence of upserts, committed scopes and rolled-back
\* scopes the full-text index holds exactly one entry per primary row,
\* linked by the row's id, with the row's current title and text; a query
\* for replaced content matches nothing, one for the new content matches.
C3_FtsConsistent ==
    /\ FtsMirrors(files, files_fts)
    /\ FtsMirrors(db_files, db_files_fts)

C3_Witness ==
    /\ last.op = "exit_raise"
    /\ \E r \in db_files :
          /\ r.record_created_datetime < r.record_updated_datetime
          /\ r.text = <<"new", "searchable", "content">>
          /\ fts_search(db_files, db_files_fts, "searchable") = {r.file_id}
          /\ fts_search(db_files, db_files_fts, "old") = {}
    /\ scope_ids /= {}

\* C4: an upsert outside a transaction scope is committed when it returns;
\* inside a scope nothing is committed until the scope exits normally, and
\* then every upsert of the scope is committed together.
C4_CommitPoints ==
    /\ (last.op = "upsert" /\ last.result = "ok" /\ scope = "none") =>
           /\ db_files = files
           /\ db_files_fts = files_fts
           /\ RowsOf(db_files, last.arg) /= {}
    /\ scope = "body" =>
           /\ db_files = scope_start[1]
           /\ db_files_fts = scope_start[2]
    /\ (last.op = "exit" /\ last.result = "ok") =>
           /\ db_files = files
           /\ db_files_fts = files_fts
           /\ \A f \in scope_ids :
                 \E r \in db_files : r.file_id = f /\ r.title = hist[f][2].title

C4_Witness ==
    /\ last.op = "exit" /\ last.result = "ok"
    /\ Cardinality(scope_ids) = 2
    /\ scope_start[1] = {}

StoreTables == <<files, files_fts, db_files, db_files_fts, hist, db_hist>>

\* C5: transaction() entered while a scope is open, and upsert() or
\* transaction() on a closed upserter, raise RuntimeError; no second
\* transaction is begun and nothing is written.
C5_FailFast ==
    [][ /\ (last'.op = "enter" /\ (scope = "body" \/ connection = Null)) =>
              /\ last'.result = "RuntimeError"
              /\ UNCHANGED <<StoreTables, sqlite_txn, in_transaction, scope, connection>>
        /\ (last'.op = "upsert" /\ connection = Null) =>
              /\ last'.result = "RuntimeError"
              /\ UNCHANGED <<StoreTables, sqlite_txn, in_transaction, scope, connection>>
      ]_vars

C5_Witness ==
    /\ last.op = "enter" /\ last.result = "RuntimeError"
    /\ scope = "body" /\ connection = "open"
    /\ files /= db_files

\* C6: close() returns True on the first call and False on every later
\* call, whatever came before; it never raises.
C6_CloseIdempotent ==
    last.op = "close" =>
        /\ last.result = (IF closes = 1 THEN "True" ELSE "False")
        /\ connection = Null

C6_Witness ==
    /\ last.op = "close" /\ last.result = "False"
    /\ closes = MaxCloses
    /\ db_files /= {}
    /\ scope = "body"

(***************************************************************************)
(* Properties of the matcher (SpecMatcher) and of FileLocation             *)
(* (SpecLocation)                                                          *)
(***************************************************************************)
IsSegmentPrefix(short, long) ==
    /\ Len(short) <= Len(long)
    /\ \A i \in 1..Len(short) : short[i] = long[i]

Qualifies(c, target) ==
    /\ c.scheme = target.scheme
    /\ c.authority = target.authority
    /\ IsSegmentPrefix(Segments(c), Segments(target))

Qualifying == {i \in 1..Len(file_locations) : Qualifies(file_locations[i], m_target[1])}

\* C7: find_match returns a candidate with the target's scheme and
\* authority (None and '' differ) whose segments are a prefix of the
\* target's and which no qualifying candidate exceeds in segment count; it
\* returns None exactly when no candidate qualifies.
C7_LongestPrefix ==
    m_called /\ m_target /= <<>> =>
        /\ (m_match = <<>>) <=> (Qualifying = {})
        /\ m_match /= <<>> =>
              /\ Qualifies(m_match[1], m_target[1])
              /\ m_index \in Qualifying
              /\ m_match[1] = file_locations[m_index]
              /\ \A j \in Qualifying :
                    Len(Segments(file_locations[j])) <= Len(Segments(m_match[1]))

C7_Witness ==
    /\ m_called /\ m_target /= <<>>
    /\ Cardinality(Qualifying) = 2
    /\ m_index = 2
    /\ Segments(m_match[1]) = <<None, SegA, SegB>>
    /\ Segments(m_target[1]) = <<None, SegA, SegB, SegA>>
    /\ Segments(file_locations[1]) = <<None, SegA>>

NoneOnlyFirst(segments) == \A i \in 1..Len(segments) : segments[i] = None => i = 1

\* C8: a construction whose base_segments or sub_segments hold a null at an
\* index other than 0 fails; in every FileLocation built, base_segments,
\* sub_segments and the derived segments hold null at index 0 only.
C8_NoneOnlyAtIndexZero ==
    /\ (loc_error /= "pending" /\ loc_args.via /= "none"
        /\ ~(NoneOnlyFirst(loc_args.base) /\ NoneOnlyFirst(loc_args.sub))) =>
           (loc = <<>> /\ loc_error \in {"ValidationError", "ValueError"})
    /\ loc /= <<>> =>
           /\ NoneOnlyFirst(loc[1].base_segments)
           /\ NoneOnlyFirst(loc[1].sub_segments)
           /\ NoneOnlyFirst(Segments(loc[1]))

C8_Witness ==
    /\ loc_args.via = "FileLocation"
    /\ loc_args.base = <<None, SegA, SegB>>
    /\ loc_args.sub = <<SegA, SegB, None>>
    /\ loc_error = "ValidationError"

\* C9: the derived segments of a FileLocation are sub_segments when
\* sub_segments starts with null, and base_segments followed by
\* sub_segments otherwise.
C9_JoinLaw ==
    loc /= <<>> =>
        LET base == loc[1].base_segments
            sub == loc[1].sub_segments
            joined == Segments(loc[1])
        IN IF Len(sub) > 0 /\ sub[1] = None
           THEN joined = sub
           ELSE /\ Len(joined) = Len(base) + Len(sub)
                /\ \A i \in 1..Len(base) : joined[i] = base[i]
                /\ \A i \in 1..Len(sub) : joined[Len(base) + i] = sub[i]

C9_Witness ==
    /\ loc /= <<>>
    /\ loc[1].base_segments = <<None, SegA>>
    /\ loc[1].sub_segments = <<None, SegB>>
    /\ Segments(loc[1]) = <<None, SegB>>

(***************************************************************************)
(* Properties of the filesystem projection (SpecFs)                        *)
(***************************************************************************)
\* the normalized form of a path under a convention, separators as the
\* projection writes them
NormalForm(convention, path) ==
    IF convention = "posix" THEN posix_normpath(path)
    ELSE Replace(nt_normpath(path), Backslash, Slash)

NativeHost(convention) == IF convention = "posix" THEN "posix" ELSE "nt"

\* C10: for C in {posix, windows} and every absolute path p valid under C,
\* from_filesystem_path(p, path_convention=C) succeeds and its
\* to_filesystem_path(C) is the normalized form of p (on the host whose
\* os.path is that of C).
C10_RoundTrip ==
    (/\ fs_args.normalize
     /\ fs_args.host = NativeHost(fs_args.path_convention)
     /\ is_absolute(fs_args.path_convention,
                    PurePath(fs_args.path_convention, fs_args.path))) =>
        /\ fs_error \in {"pending", "ok"}
        /\ (fs_out /= <<>> /\ fs_out[1] = fs_args.path_convention) =>
              fs_out[2] = NormalForm(fs_args.path_convention, fs_args.path)

\* the same statement without the double-slash prefixes of the windows
\* convention
C10_RoundTripButUnc ==
    (/\ fs_args.normalize
     /\ fs_args.host = NativeHost(fs_args.path_convention)
     /\ is_absolute(fs_args.path_convention,
                    PurePath(fs_args.path_convention, fs_args.path))
     /\ ~(fs_args.path_convention = "windows"
          /\ StartsWith(Replace(fs_args.path, Backslash, Slash), SlashSlash))) =>
        /\ fs_error \in {"pending", "ok"}
        /\ (fs_out /= <<>> /\ fs_out[1] = fs_args.path_convention) =>
              fs_out[2] = NormalForm(fs_args.path_convention, fs_args.path)

(***************************************************************************)
(* Properties of the query compiler (checked under SpecQuery)              *)
(***************************************************************************)
\* the phrase texts of terms joined by ' AND ', each term a quoted phrase
\* with or without a leading 'NOT '; <<"malformed">> when s is something else
RECURSIVE PhraseTexts(_)
PhraseTexts(s) ==
    LET body == IF StartsWith(s, NotPrefix) THEN From(s, Len(NotPrefix)) ELSE s
        close == IF body /= <<>> /\ body[1] = Quote THEN PhraseEnd(body, 2) ELSE 0
        after == From(body, close)
    IN IF close = 0 THEN <<"malformed">>
       ELSE IF after = <<>> THEN <<Slice(body, 2, close - 1)>>
       ELSE IF ~StartsWith(after, AndSeparator) THEN <<"malformed">>
       ELSE LET more == PhraseTexts(From(after, Len(AndSeparator)))
            IN IF more = <<"malformed">> THEN more
               ELSE <<Slice(body, 2, close - 1)>> \o more

IsSubstring(part, s) ==
    \E i \in 1..(Len(s) + 1) : Slice(s, i, i + Len(part) - 1) = part

\* C11: the compiled query is the empty phrase "" or terms joined by
\* ' AND ', each a double-quoted phrase optionally preceded by 'NOT '; what
\* a phrase holds, its doubled quotes read back, is a piece of the input, so
\* input text only ever appears inside a quoted phrase
C11_QuotedPhrasesOnly ==
    compiled /= <<>> =>
        LET texts == PhraseTexts(compiled[1]) IN
        /\ texts /= <<"malformed">>
        /\ \A k \in 1..Len(texts) : IsSubstring(Unescaped(texts[k]), query)

C11_Witness ==
    /\ compiled /= <<>>
    /\ query = <<"a", Quote, ":", Space>>
    /\ compiled[1] = <<Quote, "a", Quote, Quote, ":", Quote>>

\* C12: for a text written as terms separated by whitespace, each term a
\* bare word or a double-quoted run with or without a leading '-', the
\* tokens are the terms in input order: a quoted run is one term with its
\* inner whitespace kept, a bare word keeps its punctuation, and a leading
\* '-' negates that one term and is not part of its text
C12_Tokenization ==
    compiled /= <<>> /\ query_terms /= <<>> =>
        LET terms == query_terms[1] IN
        tokens[1] = [k \in 1..Len(terms) |-> Token(terms[k].text, terms[k].negate)]

C12_Witness ==
    /\ compiled /= <<>>
    /\ query = <<Dash, Quote, "a", Space, Space, "b", Quote, Space, "a", Dash, "b">>
    /\ tokens[1] = <<Token(<<"a", Space, Space, "b">>, TRUE), Token(<<"a", Dash, "b">>, FALSE)>>

(***************************************************************************)
(* Properties of Sqlite3Searcher.search (checked under SpecSearch)         *)
(***************************************************************************)
Returned(t) == search[t].pc = "returned"
ResultOf(t) == search[t].result[1]

\* C13: whatever limit is requested, a search returns at most max_limit
\* hits and reports limit = min(requested limit, max_limit)
C13_SearchCap ==
    \A t \in Threads : Returned(t) =>
        /\ Len(ResultOf(t).hits) <= max_limit
        /\ ResultOf(t).limit = Min(search[t].args.limit, max_limit)

\* C14: no free text makes search() fail with a query-syntax error, and a
\* text without any term (whitespace only) matches nothing
C14_NeverSyntaxError ==
    \A t \in Threads :
        /\ search[t].error /= "OperationalError"
        /\ Returned(t) /\ Tokenize(search[t].args.query) = <<>> => ResultOf(t).hits = <<>>

\* C19: every hit carries the file_id, file_extension, title, file_uri and
\* origin_uri columns of the row it was built from
C19_HitFields ==
    \A t \in Threads : Returned(t) =>
        \A k \in 1..Len(ResultOf(t).hits) :
            LET hit == ResultOf(t).hits[k]
                row == search[t].rows[k]
            IN /\ hit.file_id = row.file_id
               /\ "file_extension" \in DOMAIN hit
               /\ hit["file_extension"] = row.file_extension
               /\ hit.title = row.title
               /\ hit.file_uri = row.file_uri
               /\ hit.origin_uri = row.origin_uri

\* what search(args) returns when it is the only call: <<"raised", error>>
\* or <<"returned", SearchResult>>
SearchAlone(args) ==
    LET limit == Min(args.limit, max_limit)
        outcome == SEARCH_SQL(searcher_db, wrap_text_search_query(args.query), limit, args.offset)
    IN IF outcome[1] = "OperationalError" THEN <<"raised", "OperationalError">>
       ELSE <<"returned", SearchResult(args, limit, outcome[2])>>

Entered(t) == search[t].pc \in {"returned", "raised"} /\ search[t].error /= "ValidationError"

\* C20: search() calls made concurrently on one Searcher all complete
\* without error, each with the result it returns when run alone
C20_ConcurrentSearches ==
    \A t \in Threads : Entered(t) =>
        /\ Returned(t)
        /\ <<"returned", ResultOf(t)>> = SearchAlone(search[t].args)

\* the calls do not disturb one another: each ends as it ends when run alone,
\* with the same result or the same error
SearchesAreIsolated ==
    \A t \in Threads : Entered(t) =>
        IF Returned(t) THEN <<"returned", ResultOf(t)>> = SearchAlone(search[t].args)
        ELSE <<"raised", search[t].error>> = SearchAlone(search[t].args)

(***************************************************************************)
(* Properties of UriResolver.resolve (checked under SpecResolver)          *)
(***************************************************************************)
\* the uri as the grammar pkms://<authority>/file/<selector>:<value>.<ext>
\* reads it: scheme, and the path cut at its slashes
UriScheme(uri) == urlparse(uri).scheme
UriPathParts(uri) == Split(urlparse(uri).path, "/")
PathIsFileSelector(uri) ==
    /\ Len(UriPathParts(uri)) = 3
    /\ UriPathParts(uri)[1] = <<>>
    /\ UriPathParts(uri)[2] = FILE
SelectorPart(uri) == UriPathParts(uri)[3]
SelectorMissing(part) == Find(part, ":", 1) = 0
SelectorOf(part) == SplitOnce(part, ":")[1]
ExtensionMissing(part) ==
    LET rest == SplitOnce(part, ":")[2]
    IN Find(rest, ".", 1) = 0 \/ rest[Len(rest)] = "."

Malformed(uri) ==
    \/ UriScheme(uri) /= PKMS
    \/ ~PathIsFileSelector(uri)
    \/ SelectorMissing(SelectorPart(uri))
    \/ ExtensionMissing(SelectorPart(uri))
    \/ SelectorOf(SelectorPart(uri)) \notin {ID, UID, SHA256}

\* the rows a well-formed uri selects
RowsSelected(db, uri) ==
    LET value_ext == SplitOnce(SplitOnce(SelectorPart(uri), ":")[2], ".")
    IN SelectBy(db, SelectorOf(SelectorPart(uri)), Lower(value_ext[1]),
                <<".">> \o Lower(value_ext[2]))

\* C15: resolve(uri) raises ValueError when the scheme is not pkms, the path
\* is not exactly /file/<selector-part>, the selector or the extension is
\* missing or the selector is not id, uid or sha256; it raises LookupError
\* only for a well-formed uri that matches no row
C15_ErrorTaxonomy ==
    resolved /= <<>> =>
        /\ Malformed(resolve_uri) => resolved = <<"ValueError">>
        /\ resolved = <<"LookupError">> =>
               ~Malformed(resolve_uri) /\ RowsSelected(resolver_db, resolve_uri) = {}

\* apart from the uris the lenient parsing lets through (slashes around the
\* path, no slash before file, an empty extension) the errors are as C15
\* says
LenientlyParsed(uri) ==
    \/ ~PathIsFileSelector(uri) /\ Len(Split(Strip(urlparse(uri).path, "/"), "/")) = 2
    \/ /\ PathIsFileSelector(uri)
       /\ ~SelectorMissing(SelectorPart(uri))
       /\ ExtensionMissing(SelectorPart(uri))
       /\ Find(SplitOnce(SelectorPart(uri), ":")[2], ".", 1) /= 0
ResolverErrorsElsewhere ==
    resolved /= <<>> /\ ~LenientlyParsed(resolve_uri) =>
        /\ Malformed(resolve_uri) => resolved = <<"ValueError">>
        /\ resolved = <<"LookupError">> =>
               ~Malformed(resolve_uri) /\ RowsSelected(resolver_db, resolve_uri) = {}
        /\ resolved[1] = "ok" => ~Malformed(resolve_uri)

(***************************************************************************)
(* Properties of the screener                                              *)
(***************************************************************************)
\* the file name of a candidate, as its last path segment
NameOf(candidate) == candidate.segments[Len(candidate.segments)]

\* the file name does not follow the naming convention: it has no blank
\* between an id and the rest
NameFails(candidate) == \A i \in 1..Len(NameOf(candidate)) : NameOf(candidate)[i] /= Space

\* the stat or the hash of the candidate's file fails
FileFails(candidate) == candidate.on_disk /= Readable

\* screen() returned one result per candidate, in candidate order, REJECTED
\* with a reason for the candidates in failing and APPROVED for the others
OneResultEach(failing) ==
    /\ screened[1] = "returned"
    /\ Len(screened[2]) = Len(candidates)
    /\ \A i \in 1..Len(candidates) :
           LET result == screened[2][i] IN
           /\ result.file_location = candidates[i].segments
           /\ IF i \in failing
              THEN result.status = REJECTED /\ result.reason /= None
              ELSE result.status = APPROVED /\ result.file_stamp /= <<>>

\* C16: screen(candidates) returns exactly one ScreeningResult per candidate,
\* in candidate order, and never raises: a candidate whose stat, hash or
\* file-name parse fails yields a REJECTED result with a reason, and the
\* candidates before and after it are screened all the same.
C16_ScreenNeverRaises ==
    screened /= <<>> =>
        OneResultEach({i \in 1..Len(candidates) :
                          NameFails(candidates[i]) \/ FileFails(candidates[i])})

\* What holds in its place: when every file name parses, a stat or hash
\* failure is a REJECTED result among the others; and the call raises
\* exactly when some file name does not parse.
ScreenIsolatesFileFailures ==
    screened /= <<>> =>
        IF \E i \in 1..Len(candidates) : NameFails(candidates[i])
        THEN screened = <<"raised", "RuntimeError">>
        ELSE OneResultEach({i \in 1..Len(candidates) : FileFails(candidates[i])})

\* the batch of the specification: three candidates, the second with a stat
\* failure, screened as APPROVED, REJECTED, APPROVED
ScreenedThreeWithFailingSecond ==
    /\ screened /= <<>>
    /\ Len(candidates) = 3
    /\ candidates[2].on_disk = Absent
    /\ screened[1] = "returned"
    /\ <<screened[2][1].status, screened[2][2].status, screened[2][3].status>>
           = <<APPROVED, REJECTED, APPROVED>>

(***************************************************************************)
(* Properties of Collection.ingest, ingest_file and ingest_files           *)
(***************************************************************************)
\* indices of the log entries of a component
LogOf(component) == {k \in 1..Len(ingest_log) : ingest_log[k][1] = component}

\* the files whose upsert succeeded so far
Upserted == {ingest_log[k][2] : k \in {j \in LogOf("upsert") : ingest_log[j][3] = "ok"}}

\* the files the loop has been through
Done == 1..(ingest_pos - 1)

\* one of the file's screen, index or upsert steps fails
StepFails(file) ==
    \/ file.screening = "Exception"
    \/ file.screening = APPROVED /\ file.indexing = "Exception"
    \/ file.screening = APPROVED /\ file.indexing = "ok" /\ file.document.file_uri = Null

\* the file gets through the whole pipeline of the method
GetsThrough(method, file) ==
    /\ method = INGEST \/ file.matching = "True"
    /\ file.screening = APPROVED
    /\ file.indexing = "ok"
    /\ file.document.file_uri /= Null

\* the first component a call asks about a file
FirstComponent(method) == IF method = INGEST THEN "screen" ELSE "match"

\* C17: in Collection.ingest and ingest_files with dry_run off, a failure in
\* one file's screen, index or upsert step does not abort the batch and is
\* not raised to the caller: every file of the list is processed, in order,
\* and the count, returned at the end, is the number of files whose upsert
\* succeeded.
C17_FailureIsolation ==
    (ingest_call.method \in {INGEST, INGEST_FILES} /\ ~ingest_call.dry_run) =>
        /\ ingest_result \in {<<>>, <<"returned", ingest_count>>}
        /\ ingest_result /= <<>> => ingest_pos = Len(ingest_call.files) + 1
        /\ \A i \in Done :
               \E k \in 1..Len(ingest_log) :
                   /\ ingest_log[k][1] = FirstComponent(ingest_call.method)
                   /\ ingest_log[k][2] = i
        /\ \A j, k \in 1..Len(ingest_log) : j <= k => ingest_log[j][2] <= ingest_log[k][2]
        /\ ingest_count = Cardinality(Upserted)
        /\ Upserted = {i \in Done : GetsThrough(ingest_call.method, ingest_call.files[i])}

\* a batch has returned in which a file failed in its screen, index or upsert
\* step and a later file was upserted and counted
C17_Witness ==
    /\ ingest_call.method \in {INGEST, INGEST_FILES}
    /\ ~ingest_call.dry_run
    /\ ingest_result = <<"returned", 1>>
    /\ \E i, j \in 1..Len(ingest_call.files) :
           /\ i < j
           /\ StepFails(ingest_call.files[i])
           /\ (ingest_call.method = INGEST \/ ingest_call.files[i].matching = "True")
           /\ j \in Upserted

\* C18: with dry_run set, Collection.ingest, ingest_file and ingest_files
\* never call the screener, the indexer or the upserter, and the rows of the
\* store are the same before and after the call, for every file list.
C18_DryRunIsSideEffectFree ==
    ingest_call.dry_run =>
        /\ LogOf("screen") \cup LogOf("index") \cup LogOf("upsert") = {}
        /\ files = StoredFiles /\ files_fts = StoredFts
        /\ db_files = StoredFiles /\ db_files_fts = StoredFts
        /\ ingest_result /= <<>> => ingest_result[1] = "returned"

\* a dry run has returned over a list holding a file that a real run upserts
C18_Witness ==
    /\ ingest_call.dry_run
    /\ ingest_call.method \in {INGEST, INGEST_FILE, INGEST_FILES}
    /\ ingest_result /= <<>>
    /\ ingest_result[1] = "returned"
    /\ \E i \in 1..Len(ingest_call.files) :
           GetsThrough(ingest_call.method, ingest_call.files[i])

(***************************************************************************)
(* Properties of the matcher: ties                                         *)
(***************************************************************************)
\* the qualifying candidates of the greatest segment count
Longest ==
    {i \in Qualifying :
        \A j \in Qualifying :
            Len(Segments(file_locations[j])) <= Len(Segments(file_locations[i]))}

\* C30: find_match_index is deterministic: the index returned is a function
\* of the candidate list and the target, and when several candidates
\* qualify with the same longest segment length it is the lowest of their
\* indices in the candidate list (first registered wins).
C30_FirstRegisteredWins ==
    m_called /\ m_target /= <<>> =>
        /\ m_index = find_match_index(file_locations, m_target[1])
        /\ m_index = IF Longest = {} THEN 0
                     ELSE CHOOSE i \in Longest : \A j \in Longest : i <= j

\* two candidates of different base/sub split tie on the longest length and
\* the first of them was returned
C30_Witness ==
    /\ m_called /\ m_target /= <<>>
    /\ Longest = {1, 2}
    /\ file_locations[1] /= file_locations[2]
    /\ m_index = 1
    /\ m_match = <<file_locations[1]>>

(***************************************************************************)
(* Properties of UriResolver.resolve: the value and the extension          *)
(***************************************************************************)
\* index of the last dot of a string, 0 when it has none
RECURSIVE LastDot(_, _)
LastDot(s, i) == IF i = 0 \/ s[i] = "." THEN i ELSE LastDot(s, i - 1)

\* the uri gets as far as the split of '<value>.<ext>': this is the part
\* after 'selector:', <<>> when the uri is rejected before
ValueExtOf(uri) ==
    LET parsed == urlparse(uri)
        path_parts == Split(Strip(parsed.path, "/"), "/")
    IN IF parsed.scheme /= PKMS \/ Len(path_parts) /= 2 THEN <<>>
       ELSE IF path_parts[1] /= FILE \/ Len(SplitOnce(path_parts[2], ":")) /= 2 THEN <<>>
       ELSE <<SplitOnce(path_parts[2], ":")[1], SplitOnce(path_parts[2], ":")[2]>>

\* C22: resolve() splits the '<value>.<ext>' part at its final dot: the
\* value is everything before that dot, lower-cased, the extension is what
\* follows it (compared here without regard to case), and a part without a
\* dot is rejected as malformed.
C22_SplitAtFinalDot ==
    resolved /= <<>> /\ ValueExtOf(resolve_uri) /= <<>> =>
        LET selector == ValueExtOf(resolve_uri)[1]
            rest == ValueExtOf(resolve_uri)[2]
            dot == LastDot(rest, Len(rest))
        IN IF dot = 0 THEN resolved = <<"ValueError">>
           ELSE resolved = resolve_by_selector(resolver_db, selector,
                                               Lower(Slice(rest, 1, dot - 1)),
                                               <<".">> \o Lower(From(rest, dot)))

\* What holds in its place: the part is split at its first dot.
SplitAtFirstDot ==
    resolved /= <<>> /\ ValueExtOf(resolve_uri) /= <<>> =>
        LET selector == ValueExtOf(resolve_uri)[1]
            rest == ValueExtOf(resolve_uri)[2]
            dot == Find(rest, ".", 1)
        IN IF dot = 0 THEN resolved = <<"ValueError">>
           ELSE resolved = resolve_by_selector(resolver_db, selector,
                                               Lower(Slice(rest, 1, dot - 1)),
                                               <<".">> \o Lower(From(rest, dot)))

\* the address of a stored row: 'pkms:///file/id:' + file_id + file_extension
IdAddress(row) ==
    <<"p", "k", "m", "s", ":", "/", "/", "/", "f", "i", "l", "e", "/", "i", "d", ":">>
        \o row.file_id \o row.file_extension

\* C25: every stored document can be resolved by id: for a committed
\* document with file_id F and file_extension E, resolve of its address
\* returns a target whose file_id is F and whose file_extension is E.
C25_StoredIsResolvable ==
    resolved /= <<>> =>
        \A row \in resolver_db :
            resolve_uri = IdAddress(row) =>
                /\ resolved[1] = "ok"
                /\ resolved[2].file_id = row.file_id
                /\ resolved[2].file_extension = row.file_extension

\* What holds in its place: the documents whose file_id and file_extension
\* are in lower case and whose file_id holds no dot are resolved by their
\* address.
PlainId(file_id) == file_id = Lower(file_id) /\ Find(file_id, ".", 1) = 0
PlainIdsAreResolvable ==
    resolved /= <<>> =>
        \A row \in resolver_db :
            (/\ resolve_uri = IdAddress(row)
             /\ PlainId(row.file_id)
             /\ row.file_extension = Lower(row.file_extension)) =>
                /\ resolved[1] = "ok"
                /\ resolved[2].file_id = row.file_id
                /\ resolved[2].file_extension = row.file_extension


(***************************************************************************)
(* C28                                                                     *)
(***************************************************************************)
\* scheme, authority and derived segments of the two locations agree
SameLocation(a, b) ==
    /\ a.scheme = b.scheme
    /\ a.authority = b.authority
    /\ Segments(a) = Segments(b)

\* C28: the uri projection is defined for every valid FileLocation, with a
\* null, an empty or a non-empty authority, and FileLocation.from_uri(loc.uri)
\* has the scheme, the authority and the derived segments of loc
C28_UriRoundTrips ==
    /\ uri_text \notin {<<>>, <<"idle">>} => uri_text[1] = "ok"
    /\ uri_back /= <<>> => SameLocation(uri_back[1], uri_loc)

\* what does hold: the uri is defined exactly for a non-null authority, and
\* a location with an absolute path below the root and a non-null authority
\* is parsed back as it was
HasAbsolutePathBelowRoot(l) ==
    segments_is_absolute(Segments(l)) /\ Len(Segments(l)) > 1

UriOfAbsoluteRoundTrips ==
    /\ uri_text \notin {<<>>, <<"idle">>} => (uri_text[1] = "ok" <=> uri_loc.authority /= None)
    /\ (uri_back /= <<>> /\ HasAbsolutePathBelowRoot(uri_loc))
          => SameLocation(uri_back[1], uri_loc)

(***************************************************************************)
(* C23                                                                     *)
(***************************************************************************)
\* the two locations have the same filesystem path under either convention
SameProjections(a, b) ==
    \A path_convention \in {"posix", "windows"} :
        segments_to_filesystem_path(Segments(a), path_convention)
            = segments_to_filesystem_path(Segments(b), path_convention)

\* the row a resolved target was built from
RowOf(target) ==
    CHOOSE row \in resolver_db :
        row.file_id = target.file_id /\ row.file_extension = target.file_extension

ResolveSucceeded == resolved \notin {<<>>, <<"idle">>} /\ resolved[1] = "ok"

\* C23: when resolve() succeeds for a document ingested with
\* file_uri = location.uri, the returned file_location has the scheme, the
\* authority and the derived segments of the ingested location, so its
\* filesystem path under either convention is that of the ingested location,
\* and the returned status is OK
C23_ResolvedLocationIsIngested ==
    ResolveSucceeded =>
        /\ resolved[2].status = "OK"
        /\ SameLocation(resolved[2].file_location, IngestedLocation(RowOf(resolved[2]).id))
        /\ SameProjections(resolved[2].file_location, IngestedLocation(RowOf(resolved[2]).id))

\* a document whose path holds a space and a percent sign, stored percent
\* encoded, has been resolved
C23_Witness ==
    /\ ResolveSucceeded
    /\ RowOf(resolved[2]).id = 3
    /\ Find(RowOf(resolved[2]).file_uri, " ", 1) = 0
    /\ Find(Join(Rest(Segments(resolved[2].file_location)), <<"/">>), " ", 1) /= 0

(***************************************************************************)
(* C27                                                                     *)
(***************************************************************************)
\* the call made, without its base path
WithoutBase == [fs_args EXCEPT !.base_path = None]

\* path and base path of the call are absolute under its convention
AbsoluteArgs ==
    /\ is_absolute(fs_args.path_convention, PurePath(fs_args.path_convention, fs_args.path))
    /\ is_absolute(fs_args.path_convention,
                   PurePath(fs_args.path_convention, fs_args.base_path))

\* C27: for an absolute path p and an absolute base b, the filesystem root
\* included, from_filesystem_path(p, b) returns a location with the derived
\* segments of from_filesystem_path(p)
C27_BaseOnlySplits ==
    (fs_error /= "pending" /\ fs_args.base_path /= None /\ AbsoluteArgs) =>
        /\ fs_error = "ok"
        /\ from_filesystem_path(WithoutBase)[1] = "ok"
        /\ Segments(fs_loc[1]) = Segments(from_filesystem_path(WithoutBase)[2])

\* what does hold: under the posix convention, with a base other than the
\* root of the filesystem, the base only changes the split
IsRootPath(path) == path /= <<>> /\ \A i \in 1..Len(path) : path[i] = Slash

PosixBaseBelowRootOnlySplits ==
    (/\ fs_error /= "pending" /\ fs_args.base_path /= None /\ AbsoluteArgs
     /\ fs_args.path_convention = "posix" /\ fs_args.host = "posix"
     /\ ~IsRootPath(fs_args.base_path)) =>
        /\ fs_error = "ok"
        /\ from_filesystem_path(WithoutBase)[1] = "ok"
        /\ Segments(fs_loc[1]) = Segments(from_filesystem_path(WithoutBase)[2])

(***************************************************************************)
(* C26                                                                     *)
(***************************************************************************)
\* the last call ended a transaction() scope, and the upserter is open
EndedScope ==
    /\ scope = "none"
    /\ last.op \in {"exit", "exit_raise"}
    /\ connection /= Null

\* C26: when a transaction() scope ends, by commit or by rollback, the
\* upserter is no longer in a transaction, whatever came before (scopes
\* that failed, a rejected nested attempt): outside a scope _in_transaction
\* is unset, the upsert that follows the scope is committed at once, and
\* the transaction() that follows the scope enters a new scope
C26_ScopeEndLeavesNoTransaction ==
    [][/\ scope' = "none" => ~in_transaction'
       /\ (scope = "body" /\ scope' = "none" /\ connection /= Null) => ~sqlite_txn'
       /\ (EndedScope /\ last'.op = "upsert" /\ last'.result = "ok")
             => (~sqlite_txn' /\ db_files' = files' /\ db_files_fts' = files_fts')
       /\ (EndedScope /\ last'.op = "enter")
             => (last'.result = "ok" /\ scope' = "body" /\ in_transaction')]_vars

\* a scope in which a document was upserted has ended, and the upsert of
\* another document after it has been committed
C26_Witness ==
    /\ scope = "none"
    /\ last.op = "upsert" /\ last.result = "ok"
    /\ scope_ids /= {} /\ last.arg \notin scope_ids
    /\ ~in_transaction /\ ~sqlite_txn
    /\ \E r \in db_files : r.file_id = last.arg

(***************************************************************************)
(* C24                                                                     *)
(***************************************************************************)
\* the number of levels the deepest node lies below the root
RECURSIVE Height(_)
Height(node) ==
    IF is_leaf(node) \/ Children(node) = <<>> THEN 0
    ELSE 1 + MaxOf({Height(Children(node)[i]) : i \in 1..Len(Children(node))})

WalkEnded == walk_result \notin {<<>>, <<"idle">>}

\* C24: walk raises ConfigResolutionError exactly when some node lies more
\* than max_depth levels below the root, and otherwise returns a result
C24_DepthErrorExactly ==
    WalkEnded =>
        IF Height(walk_args.base) > walk_args.max_depth
        THEN walk_result = <<"raised", "ConfigResolutionError">>
        ELSE walk_result[1] = "returned"

\* what does hold: a walk over dicts, tuples and leaves, and lists that are
\* empty, ends as the claim says
RECURSIVE HasListItems(_)
HasListItems(node) ==
    /\ ~is_leaf(node)
    /\ \/ node[1] = "list" /\ Children(node) /= <<>>
       \/ \E i \in 1..Len(Children(node)) : HasListItems(Children(node)[i])

DepthErrorExactlyWithoutLists ==
    (WalkEnded /\ ~HasListItems(walk_args.base)) =>
        IF Height(walk_args.base) > walk_args.max_depth
        THEN walk_result = <<"raised", "ConfigResolutionError">>
        ELSE walk_result[1] = "returned"

(***************************************************************************)
(* C29                                                                     *)
(***************************************************************************)
\* what ingest_collection does for each of the locations in turn: the calls
\* on collections, and the sum of the counts
RECURSIVE EachIngestCollection(_, _)
EachIngestCollection(call, locations) ==
    IF locations = <<>> THEN [calls |-> <<>>, count |-> 0]
    ELSE LET first == CapabilityIngestCollection(call, Head(locations))
             others == EachIngestCollection(call, Tail(locations))
         IN [calls |-> first.calls \o others.calls, count |-> first.count + others.count]

\* C29: ingest_collections(locations) does for each location what
\* ingest_collection(location) does, and returns the sum of the counts
C29_CollectionsRefinesCollection ==
    (cap_call.method = "ingest_collections" /\ cap_result /= <<>>) =>
        /\ cap_log = EachIngestCollection(cap_call, cap_call.locations).calls
        /\ cap_result = <<"returned", EachIngestCollection(cap_call, cap_call.locations).count>>

\* what does hold: ingest_collections matches each location against the
\* collections as ingest_collection does, and calls ingest_file(location) on
\* the collection found where ingest_collection calls ingest()
CollectionsCallIngestFile ==
    (cap_call.method = "ingest_collections" /\ cap_result /= <<>>) =>
        /\ Len(cap_log) = Len(EachIngestCollection(cap_call, cap_call.locations).calls)
        /\ \A i \in 1..Len(cap_log) :
              /\ cap_log[i][1] = "ingest_file"
              /\ cap_log[i][2] = EachIngestCollection(cap_call, cap_call.locations).calls[i][2]
        /\ cap_result = <<"returned", Len(cap_log) * cap_call.ingest_file_returns>>

(***************************************************************************)
(* C21                                                                     *)
(***************************************************************************)
\* a request at its statement is not made to wait by the writer's open
\* transaction
ReaderNotBlocked == (reader.pc = "connected" /\ sqlite_txn) => ENABLED ReadExecute

====
